---- MODULE Spec2Model ----
(***************************************************************************)
(* concierge-acpi: the ordered task store with tagged eviction, the task   *)
(* dispatcher and its per-host executors, the execution plan scheduler and *)
(* the WebSocket token handshake, modelled from src/concierge_acpi.        *)
(*                                                                         *)
(* The specifications share the variables:                                 *)
(*   SpecStore    a client of OptionallyPersistentOrderedThreadSafeDict    *)
(*   SpecLock     threads calling the store, one statement at a time       *)
(*   SpecReload   a client of a store on a file, killed and re-opened       *)
(*   SpecCompile  _build_execution_sequence on any small plan               *)
(*   SpecSubst    replace_json_placeholders on any small input              *)
(*   SpecConfig   the config validation of any one command                  *)
(*   SpecAdmin    PUT /admin/config, GET /concierge and POSTs               *)
(*   SpecStream   the frames written to WebSocket clients                   *)
(*   SpecStdin    the frames a client sends to the stdin of a process       *)
(*   SpecProc     the threads of the async processes of one task; with      *)
(*                fair scheduling SpecProcFair                              *)
(*   Spec         requests, host completions, aborts and plan runs on the  *)
(*                task store                                               *)
(*   SpecPlan     TaskScheduler.execute_plan on a stored parent record     *)
(*                (SpecPlanFair: with fair scheduling)                     *)
(*   SpecRecover  the server killed and started again on a tasks file      *)
(*   SpecAuth     the handlers taken with the X-API-Key header             *)
(*   SpecRead     host completions one statement at a time, with readers   *)
(*   SpecWS       token issuance and WebSocket handshakes over a clock     *)
(***************************************************************************)
EXTENDS Integers, Sequences, FiniteSets, TLC

VARIABLES
    db,          \* the task store: [order, vals, tagged, max_size]
    store_call,  \* the last call a client made on the store and how it ended
    processes,   \* the per-task process map, a second store (main.py:52)
    procs,       \* the process objects, in the order of their creation
    requests,    \* the execute_task loops: task id -> record
    plans,       \* the plan threads: parent task id -> record
    responses,   \* the answers do_POST has sent, in order
    threads,     \* the threads inside a store call or a record update
    files,       \* the metadata file of a persistent store, as last written
    fn,          \* the last call of a function on its own: arguments and result
    config,      \* the config file, and the config the handler and the scheduler hold
    sent,        \* the frames written to each connection, in order (SpecProc:
                 \* the status broadcasts made)
    child,       \* a child process as its stdin handler thread sees it
    now,         \* int(time.time()), in seconds
    issued,      \* the tokens issue_token has handed out
    used_nonces, \* WebSocketManager.used_nonces: nonce -> exp
    clients,     \* WebSocketManager.clients: connection -> (user, task, host)
    conns        \* the fate of every connection: connection -> record

vars == <<db, store_call, processes, procs, requests, plans, responses,
          threads, files, fn, config, sent, child, now, issued, used_nonces, clients, conns>>

storeVars == <<db, store_call>>
\* the variables only some specifications use
auxVars   == <<files, fn, config, sent, child>>
taskVars  == <<processes, procs, requests, plans, responses, threads, auxVars>>
wsVars    == <<now, issued, used_nonces, clients, conns, auxVars>>

(***************************************************************************)
(* Bounds of the model.                                                    *)
(***************************************************************************)
MaxKeys == 3

KeyNames == <<"k1", "k2", "k3", "k4", "k5", "k6">>
Keys == {KeyNames[i] : i \in 1..MaxKeys}
Values == {"v1", "v2"}

(***************************************************************************)
(* Helpers on sequences and functions.                                     *)
(***************************************************************************)
Range(s) == {s[i] : i \in DOMAIN s}

\* list.remove(x): drops the first occurrence of x (x is in s at the call sites)
RECURSIVE Remove(_, _)
Remove(s, x) ==
    IF s = <<>> THEN <<>>
    ELSE IF Head(s) = x THEN Tail(s)
    ELSE <<Head(s)>> \o Remove(Tail(s), x)

\* dict.pop(x, None) on an OrderedDict kept as the sequence of its keys
Pop(s, x) == IF x \in Range(s) THEN Remove(s, x) ELSE s

Put(f, k, v) == [x \in DOMAIN f \cup {k} |-> IF x = k THEN v ELSE f[x]]
Drop(f, k) == [x \in DOMAIN f \ {k} |-> f[x]]
EmptyMap == [x \in {} |-> x]

(***************************************************************************)
(* OptionallyPersistentOrderedThreadSafeDict                               *)
(***************************************************************************)
\* __init__: filepath is "None" for the in-memory store; lock is the RLock,
\* its owner and how many times the owner has entered it
Unlocked == [owner |-> "None", count |-> 0]
NewStore(filepath, max_size) ==
    [order |-> <<>>, vals |-> EmptyMap, tagged |-> <<>>, max_size |-> max_size,
     filepath |-> filepath, lock |-> Unlocked]
NewDict(max_size) == NewStore("None", max_size)

\* mutants of set_item
set_item_evict_oldest(d, key, value) ==
    IF key \in DOMAIN d.vals
    THEN [d |-> [d EXCEPT !.vals = Put(d.vals, key, value),
                          !.order = Append(Remove(d.order, key), key),
                          !.tagged = Pop(d.tagged, key)],
          raised |-> "none"]
    ELSE IF 0 < d.max_size /\ d.max_size <= Len(d.order)
    THEN LET removal_key == IF d.tagged = <<>> THEN Head(d.order) ELSE Head(d.tagged) IN
         [d |-> [d EXCEPT !.vals = Put(Drop(d.vals, removal_key), key, value),
                          !.order = Append(Remove(d.order, removal_key), key),
                          !.tagged = Pop(d.tagged, removal_key)],
          raised |-> "none"]
    ELSE [d |-> [d EXCEPT !.vals = Put(d.vals, key, value),
                          !.order = Append(d.order, key)],
          raised |-> "none"]

set_item_pop_last(d, key, value) ==
    IF key \in DOMAIN d.vals
    THEN [d |-> [d EXCEPT !.vals = Put(d.vals, key, value),
                          !.order = Append(Remove(d.order, key), key),
                          !.tagged = Pop(d.tagged, key)],
          raised |-> "none"]
    ELSE IF 0 < d.max_size /\ d.max_size <= Len(d.order)
    THEN IF d.tagged = <<>>
         THEN [d |-> d, raised |-> "FullDictionaryError"]
         ELSE LET removal_key == d.tagged[Len(d.tagged)] IN
              [d |-> [d EXCEPT !.vals = Put(Drop(d.vals, removal_key), key, value),
                               !.order = Append(Remove(d.order, removal_key), key),
                               !.tagged = SubSeq(d.tagged, 1, Len(d.tagged) - 1)],
               raised |-> "none"]
    ELSE [d |-> [d EXCEPT !.vals = Put(d.vals, key, value),
                          !.order = Append(d.order, key)],
          raised |-> "none"]

set_item_keep_tag(d, key, value) ==
    IF key \in DOMAIN d.vals
    THEN [d |-> [d EXCEPT !.vals = Put(d.vals, key, value),
                          !.order = Append(Remove(d.order, key), key)],
          raised |-> "none"]
    ELSE IF 0 < d.max_size /\ d.max_size <= Len(d.order)
    THEN IF d.tagged = <<>>
         THEN [d |-> d, raised |-> "FullDictionaryError"]
         ELSE LET removal_key == Head(d.tagged) IN
              [d |-> [d EXCEPT !.vals = Put(Drop(d.vals, removal_key), key, value),
                               !.order = Append(Remove(d.order, removal_key), key),
                               !.tagged = Tail(d.tagged)],
               raised |-> "none"]
    ELSE [d |-> [d EXCEPT !.vals = Put(d.vals, key, value),
                          !.order = Append(d.order, key)],
          raised |-> "none"]

\* mutant of set_item: a set of a key the store holds leaves it in its place
set_item_keeps_position(d, key, value) ==
    IF key \in DOMAIN d.vals
    THEN [d |-> [d EXCEPT !.vals = Put(d.vals, key, value),
                          !.tagged = Pop(d.tagged, key)],
          raised |-> "none"]
    ELSE IF 0 < d.max_size /\ d.max_size <= Len(d.order)
    THEN IF d.tagged = <<>>
         THEN [d |-> d, raised |-> "FullDictionaryError"]
         ELSE LET removal_key == Head(d.tagged) IN
              [d |-> [d EXCEPT !.vals = Put(Drop(d.vals, removal_key), key, value),
                               !.order = Append(Remove(d.order, removal_key), key),
                               !.tagged = Tail(d.tagged)],
               raised |-> "none"]
    ELSE [d |-> [d EXCEPT !.vals = Put(d.vals, key, value),
                          !.order = Append(d.order, key)],
          raised |-> "none"]

\* _set_item: the new store and the exception raised, if any
set_item(d, key, value) ==
    IF key \in DOMAIN d.vals
    THEN [d |-> [d EXCEPT !.vals = Put(d.vals, key, value),
                          !.order = Append(Remove(d.order, key), key),
                          !.tagged = Pop(d.tagged, key)],
          raised |-> "none"]
    ELSE IF 0 < d.max_size /\ d.max_size <= Len(d.order)
    THEN IF d.tagged = <<>>
         THEN [d |-> d, raised |-> "FullDictionaryError"]
         ELSE LET removal_key == Head(d.tagged) IN   \* popitem(last=False)
              [d |-> [d EXCEPT !.vals = Put(Drop(d.vals, removal_key), key, value),
                               !.order = Append(Remove(d.order, removal_key), key),
                               !.tagged = Tail(d.tagged)],
               raised |-> "none"]
    ELSE [d |-> [d EXCEPT !.vals = Put(d.vals, key, value),
                          !.order = Append(d.order, key)],
          raised |-> "none"]

\* _del_internal
del_internal(d, key) ==
    IF key \in DOMAIN d.vals
    THEN [d EXCEPT !.vals = Drop(d.vals, key),
                   !.order = Remove(d.order, key),
                   !.tagged = Pop(d.tagged, key)]
    ELSE d

tag_for_removal(d, key) ==
    IF key \in Range(d.order) /\ key \notin Range(d.tagged)
    THEN [d EXCEPT !.tagged = Append(d.tagged, key)]
    ELSE d

\* get(key, default=None): None is the string "None"
None == "None"
get(d, key) == IF key \in DOMAIN d.vals THEN d.vals[key] ELSE None
contains(d, key) == key \in Range(d.order) /\ key \in DOMAIN d.vals

\* reversed(s)
Reversed(s) == [i \in 1..Len(s) |-> s[Len(s) + 1 - i]]

\* keys(), get_oldest_key(), get_newest() and get_items_reversed(); the two
\* in the middle raise KeyError on an empty store
keys(d) == d.order
get_oldest_key(d) == IF d.order = <<>> THEN "KeyError" ELSE d.order[1]
get_newest(d) == IF d.order = <<>> THEN "KeyError" ELSE d.vals[d.order[Len(d.order)]]
get_items_reversed(d) ==
    LET r == Reversed(d.order) IN [i \in 1..Len(r) |-> d.vals[r[i]]]

(***************************************************************************)
(* Configuration: hosts, commands and execution plans (ConciergeConfig).   *)
(* A task id is the list of its ":"-free segments: <<"t1">> for a uuid,    *)
(* <<"t1", "", "task0">> for the plan sub-task id "t1::task0".             *)
(***************************************************************************)
MaxRequests == 2
MaxPlanRuns == 1
MaxProcs == 3

Hosts == {"h1", "h2", "h3"}
Commands == {"sync_sh", "async_sh", "sync_http", "async_http", "neg_timeout"}
TaskNames == <<"t1", "t2", "t3", "t4">>
\* CONCIERGE_MAX_TASKS, the capacity of db and of processes (0: no limit)
MaxTasksChoices == {0, 1}
MaxTasksChoicesPlan == {0, 3}

\* the command definitions: h1 and h2 have a MAC and expose every command,
\* h3 has no MAC and no command
command_type(c) == IF c \in {"sync_http", "async_http"} THEN "http" ELSE "shell"
command_is_sync(c) == c \in {"sync_sh", "sync_http"}
hosts_config ==
    [h \in Hosts |-> IF h = "h3" THEN [mac |-> FALSE, commands |-> {}]
                     ELSE [mac |-> TRUE, commands |-> Commands]]

\* _validate_shell_command and _validate_http_command: the error of the
\* definition, "" when it is valid (neg_timeout is a shell command with a
\* negative timeout, which validate_config_schema lets through)
command_error(c) == IF c = "neg_timeout" THEN "Invalid timeout" ELSE ""

\* HostValidator.validate_hosts: the errors, and the keys of entries in the
\* order of their first insertion
RECURSIVE validate_hosts(_, _, _)
validate_hosts(hosts, action, command_name) ==
    IF hosts = <<>> THEN [errors |-> <<>>, entries |-> <<>>]
    ELSE LET h == Head(hosts)
             rest == validate_hosts(Tail(hosts), action, command_name)
             err == IF h \notin DOMAIN hosts_config THEN "Host not allowed"
                    ELSE IF action = "wakeup"
                         THEN (IF hosts_config[h].mac THEN "" ELSE "MAC not configured")
                         ELSE (IF command_name \notin hosts_config[h].commands
                               THEN "Command not allowed"
                               ELSE command_error(command_name)) IN
         IF err # ""
         THEN [errors |-> <<[hostname |-> h, error |-> err]>> \o rest.errors,
               entries |-> rest.entries]
         ELSE [errors |-> rest.errors,
               entries |-> <<h>> \o Pop(rest.entries, h)]

(***************************************************************************)
(* Task records and their atomic updates (TaskExecutor, StreamableProcess, *)
(* HTTPProcess).  end_timestamp is TRUE when the key is present;           *)
(* plan_tasks.shape is "absent", "list" (the [] of create_task) or "dict". *)
(***************************************************************************)
NoPlanTasks == [shape |-> "absent", status |-> EmptyMap]

\* create_task: the record it stores
task_data(command_name, entries, execution_plan) ==
    [command |-> command_name,
     execution_plan |-> execution_plan,
     success |-> <<>>,
     running |-> entries,
     errors |-> <<>>,
     end_timestamp |-> FALSE,
     plan_tasks |-> IF execution_plan # None
                    THEN [shape |-> "list", status |-> EmptyMap]
                    ELSE NoPlanTasks]

\* if hostname_dict in task["running"]: task["running"].remove(hostname_dict)
leave_running(task, hostname) == [task EXCEPT !.running = Pop(@, hostname)]

\* the host result appended to success or errors
record_result(task, hostname, error) ==
    IF error = ""
    THEN [task EXCEPT !.success = Append(@, [hostname |-> hostname])]
    ELSE [task EXCEPT !.errors = Append(@, [hostname |-> hostname, error |-> error])]

\* the body of an HTTP response, a string kept as the list of its characters
\* (<<>>: no body, the item gets no "output" key)
Outputs == {<<>>, <<"o", "k">>}

\* HTTPProcess._update_tasks: the item appended carries the output, if any
record_http_result(task, hostname, error, output) ==
    LET item == IF error = "" THEN [hostname |-> hostname]
                ELSE [hostname |-> hostname, error |-> error]
        result == IF output = <<>> THEN item
                  ELSE [k \in DOMAIN item \cup {"output"} |->
                           IF k = "output" THEN output ELSE item[k]] IN
    IF error = ""
    THEN [task EXCEPT !.success = Append(@, result)]
    ELSE [task EXCEPT !.errors = Append(@, result)]

\* if not task["running"]: stamp end_timestamp and tag_for_removal(task_id);
\* then db[task_id] = task
finish_and_store(d, task_id, task) ==
    IF task.running = <<>>
    THEN set_item(tag_for_removal(d, task_id), task_id,
                  [task EXCEPT !.end_timestamp = TRUE]).d
    ELSE set_item(d, task_id, task).d

\* mutant of atomic_task_update: the host is not taken out of running
atomic_task_update_keeps_running(d, task_id, hostname, error) ==
    finish_and_store(d, task_id, record_result(d.vals[task_id], hostname, error))

\* TaskExecutor._atomic_task_update (error = "" for the success field)
atomic_task_update(d, task_id, hostname, error) ==
    finish_and_store(d, task_id,
        record_result(leave_running(d.vals[task_id], hostname), hostname, error))

\* StreamableProcess._update_task: the result is appended first, then the
\* host leaves running
update_task(d, task_id, hostname, error) ==
    IF task_id \notin DOMAIN d.vals THEN d
    ELSE finish_and_store(d, task_id,
             leave_running(record_result(d.vals[task_id], hostname, error), hostname))

\* HTTPProcess._update_tasks: the same order, the item with its output
update_tasks(d, task_id, hostname, error, output) ==
    IF task_id \notin DOMAIN d.vals THEN d
    ELSE finish_and_store(d, task_id,
             leave_running(record_http_result(d.vals[task_id], hostname, error, output),
                           hostname))

(***************************************************************************)
(* Execution plans (TaskScheduler): the configured plans and the pure      *)
(* parts of the interpreter.  Indices are 0-based as in the code; NoIdx    *)
(* stands for an absent or None field.                                     *)
(***************************************************************************)
NoIdx == -1

PlanTask(command, hostnames) ==
    [command |-> command, hostnames |-> hostnames,
     execute_after |-> NoIdx, execute_at_position |-> NoIdx,
     if_previous_command |-> NoIdx, if_previous_command_result |-> "",
     if_previous_output_contains |-> <<>>,
     on_success_jump_to |-> NoIdx, on_error_jump_to |-> NoIdx]

execution_plans ==
    [empty |-> [referenced_plans |-> <<>>, tasks |-> <<>>],
     s4 |-> [referenced_plans |-> <<>>,
             tasks |-> <<PlanTask("sync_sh", <<"h1">>),
                         [PlanTask("sync_sh", <<"h1">>) EXCEPT
                             !.if_previous_command = 0,
                             !.if_previous_command_result = "all_success"]>>],
     retry |-> [referenced_plans |-> <<>>,
                tasks |-> <<[PlanTask("sync_sh", <<"h1">>) EXCEPT
                                !.on_error_jump_to = 0]>>],
     outer |-> [referenced_plans |-> <<"s4">>,
                tasks |-> <<PlanTask("async_sh", <<"h1", "h2">>)>>],
     broken |-> [referenced_plans |-> <<"nope">>, tasks |-> <<>>],
     wrap |-> [referenced_plans |-> <<>>,
               tasks |-> <<PlanTask("s4", <<>>)>>],
     badhost |-> [referenced_plans |-> <<>>,
                  tasks |-> <<PlanTask("sync_sh", <<"ghost">>)>>],
     long |-> [referenced_plans |-> <<>>,
               tasks |-> <<PlanTask("sync_sh", <<"h1">>),
                           PlanTask("sync_http", <<"h1">>),
                           PlanTask("sync_sh", <<"h2">>)>>],
     after |-> [referenced_plans |-> <<>>,
                tasks |-> <<PlanTask("sync_sh", <<"h1">>),
                            [PlanTask("sync_sh", <<"h1">>) EXCEPT !.execute_after = 0],
                            [PlanTask("sync_sh", <<"h1">>) EXCEPT !.execute_after = 3]>>],
     cond |-> [referenced_plans |-> <<>>,
               tasks |-> <<PlanTask("sync_sh", <<"h1", "h2">>),
                           [PlanTask("sync_sh", <<"h1">>) EXCEPT
                               !.if_previous_command = 0,
                               !.if_previous_command_result = "any_success"],
                           [PlanTask("sync_sh", <<"h1">>) EXCEPT
                               !.if_previous_command = 0,
                               !.if_previous_command_result = "all_error"],
                           [PlanTask("sync_sh", <<"h1">>) EXCEPT
                               !.if_previous_command = 0,
                               !.if_previous_command_result = "any_error"]>>],
     fwd |-> [referenced_plans |-> <<>>,
              tasks |-> <<[PlanTask("sync_sh", <<"h1">>) EXCEPT
                              !.if_previous_command = 1,
                              !.if_previous_command_result = "all_success"],
                          [PlanTask("sync_sh", <<"h1">>) EXCEPT
                              !.if_previous_command = 1],
                          [PlanTask("sync_sh", <<"h1">>) EXCEPT
                              !.if_previous_command = 0]>>],
     grep |-> [referenced_plans |-> <<>>,
               tasks |-> <<PlanTask("sync_http", <<"h1", "h2">>),
                           [PlanTask("sync_sh", <<"h1">>) EXCEPT
                               !.if_previous_command = 0,
                               !.if_previous_output_contains = <<"o", "k">>],
                           [PlanTask("sync_sh", <<"h1">>) EXCEPT
                               !.if_previous_command = 0,
                               !.if_previous_command_result = "all_success",
                               !.if_previous_output_contains = <<"k", "\n", "o">>]>>],
     reorder |-> [referenced_plans |-> <<>>,
                  tasks |-> <<[PlanTask("sync_sh", <<"h1">>) EXCEPT
                                  !.execute_at_position = 1],
                              [PlanTask("sync_sh", <<"h1">>) EXCEPT
                                  !.execute_at_position = 0,
                                  !.execute_after = 0]>>],
     jump |-> [referenced_plans |-> <<>>,
               tasks |-> <<[PlanTask("sync_sh", <<"h1", "h2">>) EXCEPT
                               !.on_error_jump_to = 2,
                               !.on_success_jump_to = 7],
                           PlanTask("sync_sh", <<"h1">>),
                           PlanTask("sync_sh", <<"h1">>)>>],
     hints |-> [referenced_plans |-> <<>>,
                tasks |-> <<[PlanTask("sync_sh", <<"h1">>) EXCEPT
                                !.execute_at_position = 2],
                            [PlanTask("sync_sh", <<"h1">>) EXCEPT
                                !.execute_at_position = 0,
                                !.on_error_jump_to = 0],
                            [PlanTask("sync_sh", <<"h1">>) EXCEPT
                                !.execute_at_position = 1]>>]]

PlanNames == DOMAIN execution_plans

\* f"plan_{plan_name}", the only key of entries for a plan (do_POST)
PlanEntry ==
    [empty |-> "plan_empty", s4 |-> "plan_s4", retry |-> "plan_retry", outer |-> "plan_outer",
     broken |-> "plan_broken", wrap |-> "plan_wrap", badhost |-> "plan_badhost",
     long |-> "plan_long", after |-> "plan_after", cond |-> "plan_cond",
     fwd |-> "plan_fwd", grep |-> "plan_grep", reorder |-> "plan_reorder",
     jump |-> "plan_jump", hints |-> "plan_hints"]

\* f"{parent_task_id}::task{task_idx}"
TaskSegs == <<"task0", "task1", "task2", "task3">>
sub_task_id(parent_task_id, task_idx) == parent_task_id \o <<"", TaskSegs[task_idx + 1]>>

\* f"Plan progress: {completed}/{total}"
ProgressTable ==
    <<<<"Plan progress: 0/0", "Plan progress: 0/1", "Plan progress: 0/2", "Plan progress: 0/3", "Plan progress: 0/4">>,
      <<"Plan progress: 1/0", "Plan progress: 1/1", "Plan progress: 1/2", "Plan progress: 1/3", "Plan progress: 1/4">>,
      <<"Plan progress: 2/0", "Plan progress: 2/1", "Plan progress: 2/2", "Plan progress: 2/3", "Plan progress: 2/4">>,
      <<"Plan progress: 3/0", "Plan progress: 3/1", "Plan progress: 3/2", "Plan progress: 3/3", "Plan progress: 3/4">>,
      <<"Plan progress: 4/0", "Plan progress: 4/1", "Plan progress: 4/2", "Plan progress: 4/3", "Plan progress: 4/4">>>>
progress_host(completed, total) == ProgressTable[completed + 1][total + 1]

\* validate_plan: the plan and the plans it references exist
validate_plan(plan_name) ==
    /\ plan_name \in PlanNames
    /\ \A i \in DOMAIN execution_plans[plan_name].referenced_plans :
          execution_plans[plan_name].referenced_plans[i] \in PlanNames

\* list.sort(key=position): a stable insertion sort
RECURSIVE insert_by_position(_, _)
insert_by_position(sorted, item) ==
    IF sorted = <<>> THEN <<item>>
    ELSE IF item.position < Head(sorted).position THEN <<item>> \o sorted
    ELSE <<Head(sorted)>> \o insert_by_position(Tail(sorted), item)

RECURSIVE sort_by_position(_)
sort_by_position(items) ==
    IF items = <<>> THEN <<>>
    ELSE insert_by_position(
             sort_by_position(SubSeq(items, 1, Len(items) - 1)), items[Len(items)])

\* mutant of build_execution_sequence: the items are never sorted
build_execution_sequence_unsorted(plan) ==
    LET tasks == plan.tasks
        refs == plan.referenced_plans
        ref_items == [i \in DOMAIN refs |->
            [type |-> "plan", plan_name |-> refs[i], original_index |-> NoIdx,
             position |-> 0]]
        task_items == [i \in DOMAIN tasks |->
            [type |-> "task", plan_name |-> "", original_index |-> i - 1,
             position |-> IF tasks[i].execute_at_position # NoIdx
                          THEN tasks[i].execute_at_position
                          ELSE (i - 1) + Len(refs)]] IN
    ref_items \o task_items

\* _build_execution_sequence
build_execution_sequence(plan) ==
    LET tasks == plan.tasks
        refs == plan.referenced_plans
        has_position_hints == \E i \in DOMAIN tasks : tasks[i].execute_at_position # NoIdx
        ref_items == [i \in DOMAIN refs |->
            [type |-> "plan", plan_name |-> refs[i], original_index |-> NoIdx,
             position |-> 0]]
        task_items == [i \in DOMAIN tasks |->
            [type |-> "task", plan_name |-> "", original_index |-> i - 1,
             position |-> IF tasks[i].execute_at_position # NoIdx
                          THEN tasks[i].execute_at_position
                          ELSE (i - 1) + Len(refs)]] IN
    IF ~has_position_hints THEN ref_items \o task_items
    ELSE sort_by_position(ref_items \o task_items)

\* _find_task_index_in_sequence
find_task_index_in_sequence(sequence, original_task_idx) ==
    LET hits == {i \in DOMAIN sequence :
                    sequence[i].type = "task"
                    /\ sequence[i].original_index = original_task_idx} IN
    IF hits = {} THEN Len(sequence)
    ELSE (CHOOSE i \in hits : \A j \in hits : i <= j) - 1

\* search_str in combined_output, both lists of characters
IsSubstring(search_str, combined_output) ==
    \E i \in 0..(Len(combined_output) - Len(search_str)) :
        SubSeq(combined_output, i + 1, i + Len(search_str)) = search_str

\* the outputs of the items that have an "output" key
RECURSIVE item_outputs(_)
item_outputs(items) ==
    IF items = <<>> THEN <<>>
    ELSE (IF "output" \in DOMAIN Head(items) THEN <<Head(items).output>> ELSE <<>>)
             \o item_outputs(Tail(items))

\* "\n".join(all_outputs)
RECURSIVE join_lines(_)
join_lines(all_outputs) ==
    IF all_outputs = <<>> THEN <<>>
    ELSE IF Len(all_outputs) = 1 THEN all_outputs[1]
    ELSE all_outputs[1] \o <<"\n">> \o join_lines(Tail(all_outputs))

\* mutant of check_conditions: all_success asks for a success, not for the
\* absence of errors
check_conditions_all_means_some(plan_task, task_results, current_idx) ==
    IF plan_task.if_previous_command = NoIdx THEN TRUE
    ELSE LET prev_idx == plan_task.if_previous_command IN
         IF prev_idx >= current_idx \/ prev_idx \notin DOMAIN task_results THEN FALSE
         ELSE LET prev_result == task_results[prev_idx]
                  condition == plan_task.if_previous_command_result IN
              ~ \/ (condition = "all_success" /\ Len(prev_result.success) = 0)
                \/ (condition = "any_success" /\ Len(prev_result.success) = 0)
                \/ (condition = "all_error" /\ Len(prev_result.success) > 0)
                \/ (condition = "any_error" /\ Len(prev_result.errors) = 0)

\* _check_conditions
check_conditions(plan_task, task_results, current_idx) ==
    IF plan_task.if_previous_command = NoIdx THEN TRUE
    ELSE LET prev_idx == plan_task.if_previous_command IN
         IF prev_idx >= current_idx \/ prev_idx \notin DOMAIN task_results THEN FALSE
         ELSE LET prev_result == task_results[prev_idx]
                  condition == plan_task.if_previous_command_result
                  search_str == plan_task.if_previous_output_contains
                  combined_output ==
                      join_lines(item_outputs(prev_result.success)
                                     \o item_outputs(prev_result.errors)) IN
              IF \/ (condition = "all_success" /\ Len(prev_result.errors) > 0)
                 \/ (condition = "any_success" /\ Len(prev_result.success) = 0)
                 \/ (condition = "all_error" /\ Len(prev_result.success) > 0)
                 \/ (condition = "any_error" /\ Len(prev_result.errors) = 0)
              THEN FALSE
              ELSE IF search_str # <<>> /\ ~IsSubstring(search_str, combined_output)
              THEN FALSE
              ELSE TRUE

\* mutant of next_index: the jump target is used as a sequence position
next_index_unresolved(sequence, idx, plan_task, result) ==
    LET has_errors == Len(result.errors) > 0
        has_success == Len(result.success) > 0 IN
    IF has_errors /\ ~has_success /\ plan_task.on_error_jump_to # NoIdx
    THEN plan_task.on_error_jump_to
    ELSE IF has_success /\ plan_task.on_success_jump_to # NoIdx
    THEN plan_task.on_success_jump_to
    ELSE idx + 1

\* the branch of _execute_plan_sync after a task: the next sequence index
next_index(sequence, idx, plan_task, result) ==
    LET has_errors == Len(result.errors) > 0
        has_success == Len(result.success) > 0 IN
    IF has_errors /\ ~has_success /\ plan_task.on_error_jump_to # NoIdx
    THEN find_task_index_in_sequence(sequence, plan_task.on_error_jump_to)
    ELSE IF has_success /\ plan_task.on_success_jump_to # NoIdx
    THEN find_task_index_in_sequence(sequence, plan_task.on_success_jump_to)
    ELSE idx + 1

\* _update_plan_task_status: the key str(task_idx) is kept as task_idx;
\* indexing the list of create_task with a str raises TypeError
update_plan_task_status(d, parent_task_id, task_idx, status) ==
    IF parent_task_id \notin DOMAIN d.vals THEN [d |-> d, raised |-> "none"]
    ELSE LET task == d.vals[parent_task_id] IN
         IF task.plan_tasks.shape = "list" THEN [d |-> d, raised |-> "TypeError"]
         ELSE [d |-> set_item(d, parent_task_id,
                   [task EXCEPT !.plan_tasks =
                       [shape |-> "dict",
                        status |-> Put(task.plan_tasks.status, task_idx, status)]]).d,
               raised |-> "none"]

\* _update_parent_task_progress
update_parent_task_progress(d, parent_task_id) ==
    IF parent_task_id \notin DOMAIN d.vals THEN [d |-> d, raised |-> "none"]
    ELSE LET task == d.vals[parent_task_id]
             st == task.plan_tasks.status
             completed == Cardinality({k \in DOMAIN st : st[k] = "completed"})
             total == Cardinality(DOMAIN st) IN
         IF task.plan_tasks.shape = "list" THEN [d |-> d, raised |-> "AttributeError"]
         ELSE [d |-> set_item(d, parent_task_id,
                   [task EXCEPT !.running = <<progress_host(completed, total)>>]).d,
               raised |-> "none"]

\* the end of _execute_plan_sync: stamp and tag the parent if nothing runs
plan_end_update(d, parent_task_id) ==
    IF parent_task_id \notin DOMAIN d.vals THEN d
    ELSE LET task == d.vals[parent_task_id] IN
         IF task.running # <<>> THEN d
         ELSE set_item(tag_for_removal(d, parent_task_id), parent_task_id,
                       [task EXCEPT !.end_timestamp = TRUE]).d

\* the except branch of execute_plan.run_plan
plan_failed_update(d, parent_task_id) ==
    IF parent_task_id \notin DOMAIN d.vals THEN d
    ELSE LET task == d.vals[parent_task_id] IN
         set_item(d, parent_task_id,
             [task EXCEPT !.errors = Append(@, [hostname |-> None,
                                                error |-> "Execution plan error"]),
                          !.end_timestamp = TRUE]).d

(***************************************************************************)
(* Restart recovery (main_utils.recover_dropped_tasks).                    *)
(***************************************************************************)
Dropped == "Process dropped during restart"

\* [{**item, "error": ...} for item in dropped]
dropped_errors(dropped) ==
    [i \in DOMAIN dropped |-> [hostname |-> dropped[i], error |-> Dropped]]

\* mutant of recover_task: the key is tagged before the record is written
recover_task_tag_first(d, k) ==
    LET v == d.vals[k] IN
    IF v.running = <<>> THEN d
    ELSE set_item(tag_for_removal(d, k), k,
                  [v EXCEPT !.errors = @ \o dropped_errors(v.running),
                            !.running = <<>>,
                            !.end_timestamp = TRUE]).d

\* mutant of recover_task: the hosts stay in running
recover_task_keeps_running(d, k) ==
    LET v == d.vals[k] IN
    IF v.running = <<>> THEN d
    ELSE tag_for_removal(
             set_item(d, k, [v EXCEPT !.errors = @ \o dropped_errors(v.running),
                                      !.end_timestamp = TRUE]).d, k)

\* the body of the loop for the key k
recover_task(d, k) ==
    LET v == d.vals[k] IN
    IF v.running = <<>> THEN d
    ELSE tag_for_removal(
             set_item(d, k, [v EXCEPT !.errors = @ \o dropped_errors(v.running),
                                      !.running = <<>>,
                                      !.end_timestamp = TRUE]).d, k)

\* for k in db.keys(): keys() is a copy of the order taken before the loop
RECURSIVE recover_keys(_, _)
recover_keys(d, ks) ==
    IF ks = <<>> THEN d
    ELSE recover_keys(recover_task(d, Head(ks)), Tail(ks))

recover_dropped_tasks(d) == recover_keys(d, keys(d))

(***************************************************************************)
(* The values the variables of a specification hold while another one      *)
(* runs.                                                                   *)
(***************************************************************************)
NoCall == [op |-> "none", key |-> None, value |-> None, raised |-> "none"]

\* mutant of save_metadata: the tagged keys are not written
save_metadata_without_tags(d) == [order |-> d.order, tagged |-> <<>>]

\* _save_metadata: the order and the tagged keys, as JSON lists
save_metadata(d) == [order |-> d.order, tagged |-> d.tagged]

IdleFiles == files = save_metadata(NewDict(0))

\* no function has been called on its own
NoFn == [op |-> "None", args |-> <<>>, result |-> <<>>, done |-> FALSE]

\* no config is looked at, no frame written, no child with a stdin handler
IdleRest ==
    /\ config = "None"
    /\ sent = <<>>
    /\ child = "None"

IdleAux ==
    /\ IdleFiles
    /\ fn = NoFn
    /\ IdleRest

IdleStore == db = NewDict(0) /\ store_call = NoCall
IdleCore ==
    /\ processes = NewDict(0)
    /\ procs = EmptyMap
    /\ requests = EmptyMap
    /\ plans = EmptyMap
    /\ responses = <<>>
    /\ threads = EmptyMap
IdleTasks ==
    /\ IdleCore
    /\ IdleAux
IdleWS ==
    /\ now = 0
    /\ issued = {}
    /\ used_nonces = EmptyMap
    /\ clients = EmptyMap
    /\ conns = <<>>

(***************************************************************************)
(* SpecStore: any client of the store (tests/test_dict.py).                *)
(***************************************************************************)
InitStore ==
    /\ \E m \in 0..(MaxKeys - 1) : db = NewDict(m)
    /\ store_call = NoCall
    /\ IdleTasks
    /\ IdleWS

\* __setitem__
setitem(key, value) ==
    LET r == set_item(db, key, value) IN
    /\ db' = r.d
    /\ store_call' = [op |-> "set", key |-> key, value |-> value, raised |-> r.raised]
    /\ UNCHANGED <<taskVars, wsVars>>

\* __delitem__
delitem(key) ==
    /\ db' = del_internal(db, key)
    /\ store_call' = [op |-> "del", key |-> key, value |-> None, raised |-> "none"]
    /\ UNCHANGED <<taskVars, wsVars>>

\* tag_for_removal, called by a client
tag(key) ==
    /\ db' = tag_for_removal(db, key)
    /\ store_call' = [op |-> "tag", key |-> key, value |-> None, raised |-> "none"]
    /\ UNCHANGED <<taskVars, wsVars>>

NextStore ==
    \/ \E key \in Keys, value \in Values : setitem(key, value)
    \/ \E key \in Keys : delitem(key)
    \/ \E key \in Keys : tag(key)

SpecStore == InitStore /\ [][NextStore]_vars

(***************************************************************************)
(* SpecLock: threads calling the store.  Every public method runs its body *)
(* under `with self.lock`; the body is taken one statement at a time.      *)
(* Here responses is the list of the calls in the order they took the      *)
(* lock, each with the exception and the value it ended with.              *)
(***************************************************************************)
MaxCalls == 3

LockThreads == {"a", "b"}
LockCapacities == {0, 2}
StoreOps == {"set", "del", "tag", "get"}

InitLock ==
    /\ \E m \in LockCapacities : db = NewDict(m)
    /\ store_call = NoCall
    /\ IdleTasks
    /\ IdleWS

St(op, key, value) == [op |-> op, key |-> key, value |-> value]

\* the statements a call runs on the store of its first line: the tests of
\* _set_item, _del_internal and tag_for_removal all come before the first
\* statement that changes something
body(d, op, key, value) ==
    IF op = "set"
    THEN IF key \in DOMAIN d.vals
         THEN [todo |-> <<St("put", key, value), St("order_remove", key, None),
                          St("order_append", key, None), St("untag", key, None)>>,
               raised |-> "none"]
         ELSE IF 0 < d.max_size /\ d.max_size <= Len(d.order)
         THEN IF d.tagged = <<>>
              THEN [todo |-> <<>>, raised |-> "FullDictionaryError"]
              ELSE LET removal_key == Head(d.tagged) IN
                   [todo |-> <<St("popitem", removal_key, None),
                               St("del", removal_key, None),
                               St("order_remove", removal_key, None),
                               St("put", key, value), St("order_append", key, None)>>,
                    raised |-> "none"]
         ELSE [todo |-> <<St("put", key, value), St("order_append", key, None)>>,
               raised |-> "none"]
    ELSE IF op = "del"
    THEN [todo |-> IF key \in DOMAIN d.vals
                   THEN <<St("del", key, None), St("order_remove", key, None),
                          St("untag", key, None)>>
                   ELSE <<>>,
          raised |-> "none"]
    ELSE IF op = "tag"
    THEN [todo |-> IF key \in Range(d.order) /\ key \notin Range(d.tagged)
                   THEN <<St("tag", key, None)>> ELSE <<>>,
          raised |-> "none"]
    ELSE [todo |-> <<>>, raised |-> "none"]

\* one statement of a body
run_statement(d, st) ==
    IF st.op = "put" THEN [d EXCEPT !.vals = Put(d.vals, st.key, st.value)]
    ELSE IF st.op = "del" THEN [d EXCEPT !.vals = Drop(d.vals, st.key)]
    ELSE IF st.op = "order_remove" THEN [d EXCEPT !.order = Remove(d.order, st.key)]
    ELSE IF st.op = "order_append" THEN [d EXCEPT !.order = Append(d.order, st.key)]
    ELSE IF st.op = "untag" THEN [d EXCEPT !.tagged = Pop(d.tagged, st.key)]
    ELSE IF st.op = "popitem" THEN [d EXCEPT !.tagged = Pop(d.tagged, st.key)]
    ELSE [d EXCEPT !.tagged = Append(d.tagged, st.key)]

\* mutant of can_acquire: the methods do not take the lock
can_acquire_always(d, t) == TRUE

\* threading.RLock.acquire returns: the lock is free, or held by the caller
can_acquire(d, t) == d.lock.count = 0 \/ d.lock.owner = t

\* the first line of a public method: with self.lock
call_enter(t, op, key, value) ==
    /\ t \notin DOMAIN threads
    /\ Len(responses) < MaxCalls
    /\ can_acquire(db, t)
    /\ db' = [db EXCEPT !.lock = [owner |-> t, count |-> 1]]
    /\ threads' = Put(threads, t, body(db, op, key, value))
    /\ responses' = Append(responses,
           [thread |-> t, op |-> op, key |-> key, value |-> value,
            raised |-> body(db, op, key, value).raised,
            result |-> IF op = "get" THEN get(db, key) ELSE None])
    /\ UNCHANGED <<store_call, processes, procs, requests, plans, wsVars>>

\* the next statement of the body
call_step(t) ==
    /\ t \in DOMAIN threads
    /\ threads[t].todo # <<>>
    /\ db' = run_statement(db, Head(threads[t].todo))
    /\ threads' = [threads EXCEPT ![t].todo = Tail(@)]
    /\ UNCHANGED <<store_call, processes, procs, requests, plans, responses, wsVars>>

\* the end of the with block (also when the body raised)
call_leave(t) ==
    /\ t \in DOMAIN threads
    /\ threads[t].todo = <<>>
    /\ db' = [db EXCEPT !.lock = Unlocked]
    /\ threads' = Drop(threads, t)
    /\ UNCHANGED <<store_call, processes, procs, requests, plans, responses, wsVars>>

NextLock ==
    \/ \E t \in LockThreads, op \in StoreOps, key \in Keys :
          call_enter(t, op, key, IF op = "set" THEN "v1" ELSE None)
    \/ \E t \in LockThreads : call_step(t)
    \/ \E t \in LockThreads : call_leave(t)

SpecLock == InitLock /\ [][NextLock]_vars

(***************************************************************************)
(* SpecReload: a store on a file.  db.vals is the shelve file, files the   *)
(* metadata file; db.order and db.tagged are the lists in memory, lost     *)
(* when the process ends and read again by _load_metadata.                 *)
(***************************************************************************)
\* the filepath of the constructor
TasksFile == "tasks"

InitReload ==
    /\ \E m \in 0..(MaxKeys - 1) : db = NewStore(TasksFile, m)
    /\ store_call = NoCall
    /\ IdleTasks
    /\ IdleWS

\* what the methods rely on: the order lists the keys of the shelve file and
\* the tagged keys are among them
Sound(d) == Range(d.order) = DOMAIN d.vals /\ Range(d.tagged) \subseteq Range(d.order)

\* __init__ with the same filepath and max_size: _load_metadata reads the
\* two lists, keeps of the order the keys the shelve file holds, and saves
load_metadata(d, metadata) ==
    [d EXCEPT !.order = SelectSeq(metadata.order, LAMBDA key : key \in DOMAIN d.vals),
              !.tagged = metadata.tagged,
              !.lock = Unlocked]

notStore == <<processes, procs, requests, plans, responses, threads, fn,
              config, sent, child, now, issued, used_nonces, clients, conns>>

\* __setitem__ on a file: _save_metadata follows the with block, which an
\* exception leaves
file_setitem(key, value) ==
    LET r == set_item(db, key, value) IN
    /\ Sound(db)
    /\ db' = r.d
    /\ files' = IF r.raised = "none" THEN save_metadata(r.d) ELSE files
    /\ store_call' = [op |-> "set", key |-> key, value |-> value, raised |-> r.raised]
    /\ UNCHANGED notStore

\* __delitem__ on a file
file_delitem(key) ==
    /\ Sound(db)
    /\ db' = del_internal(db, key)
    /\ files' = save_metadata(db')
    /\ store_call' = [op |-> "del", key |-> key, value |-> None, raised |-> "none"]
    /\ UNCHANGED notStore

\* tag_for_removal on a file: saved if the key was tagged by the call
file_tag(key) ==
    /\ Sound(db)
    /\ db' = tag_for_removal(db, key)
    /\ files' = IF db' # db THEN save_metadata(db') ELSE files
    /\ store_call' = [op |-> "tag", key |-> key, value |-> None, raised |-> "none"]
    /\ UNCHANGED notStore

\* the store is constructed again on the same files
reopen ==
    /\ db' = load_metadata(db, files)
    /\ files' = save_metadata(db')
    /\ store_call' = [op |-> "reopen", key |-> None, value |-> None, raised |-> "none"]
    /\ UNCHANGED notStore

\* the process is killed in __setitem__ or __delitem__ between the end of
\* the with block and _save_metadata, and the store constructed again
killed(op, key, value) ==
    /\ Sound(db)
    /\ LET shelf == IF op = "set" THEN set_item(db, key, value).d.vals
                    ELSE del_internal(db, key).vals IN
       /\ shelf # db.vals
       /\ db' = load_metadata([db EXCEPT !.vals = shelf], files)
    /\ files' = save_metadata(db')
    /\ store_call' = [op |-> "killed", key |-> key, value |-> value, raised |-> "none"]
    /\ UNCHANGED notStore

NextReload ==
    \/ \E key \in Keys, value \in Values : file_setitem(key, value)
    \/ \E key \in Keys : file_delitem(key)
    \/ \E key \in Keys : file_tag(key)
    \/ reopen
    \/ \E key \in Keys, value \in Values : killed("set", key, value)
    \/ \E key \in Keys : killed("del", key, None)

SpecReload == InitReload /\ [][NextReload]_vars

\* the call of this step is a set of a key the store does not hold, at capacity
SetNewAtCapacity ==
    /\ store_call'.op = "set"
    /\ store_call'.key \notin DOMAIN db.vals
    /\ db.max_size > 0
    /\ Len(db.order) = db.max_size

\* C4: a set of a new key at capacity with nothing tagged raises
\* FullDictionaryError and changes nothing; and whatever the call, a key that
\* leaves the store was tagged, unless the call deleted it.
C4_NoUntaggedEviction ==
    [][ /\ (SetNewAtCapacity /\ db.tagged = <<>>)
            => (store_call'.raised = "FullDictionaryError" /\ db' = db)
        /\ \A k \in DOMAIN db.vals :
              k \notin DOMAIN db'.vals
                  => \/ k \in Range(db.tagged)
                     \/ (store_call'.op = "del" /\ store_call'.key = k)
      ]_vars

C4_Witness ==
    /\ store_call.op = "set"
    /\ store_call.raised = "FullDictionaryError"
    /\ db.max_size > 0
    /\ Len(db.order) = db.max_size
    /\ db.tagged = <<>>
    /\ store_call.key \notin DOMAIN db.vals

\* C5: a set of a new key at capacity with a tagged key evicts exactly the key
\* tagged first, inserts the new key last, keeps every other entry and tag,
\* and the length stays max_size.
C5_EvictsFirstTagged ==
    [][ (SetNewAtCapacity /\ db.tagged # <<>>) =>
          LET victim == Head(db.tagged)
              key == store_call'.key IN
          /\ store_call'.raised = "none"
          /\ DOMAIN db'.vals = (DOMAIN db.vals \ {victim}) \cup {key}
          /\ db'.vals[key] = store_call'.value
          /\ \A k \in DOMAIN db.vals \ {victim} : db'.vals[k] = db.vals[k]
          /\ db'.order = Append(Remove(db.order, victim), key)
          /\ db'.tagged = Tail(db.tagged)
          /\ Len(db'.order) = db.max_size
      ]_vars

\* two keys are tagged in the opposite order of their insertion and the one
\* tagged first, the younger one, has been evicted by a set
C5_Witness ==
    /\ store_call.op = "set"
    /\ store_call.raised = "none"
    /\ db.max_size = 2
    /\ db.order = <<"k1", "k3">>
    /\ db.tagged = <<"k1">>
    /\ store_call.key = "k3"

\* C6: a set of a key the store holds never raises and never evicts, replaces
\* the value, clears the tag of that key and keeps the tags of the others.
C6_UpdateExisting ==
    [][ (store_call'.op = "set" /\ store_call'.key \in DOMAIN db.vals) =>
          LET key == store_call'.key IN
          /\ store_call'.raised = "none"
          /\ DOMAIN db'.vals = DOMAIN db.vals
          /\ db'.vals[key] = store_call'.value
          /\ \A k \in DOMAIN db.vals \ {key} : db'.vals[k] = db.vals[k]
          /\ key \notin Range(db'.tagged)
          /\ db'.tagged = Pop(db.tagged, key)
          /\ Range(db'.order) = Range(db.order)
      ]_vars

\* a tagged key has been updated in a full store where no other key is tagged
C6_Witness ==
    /\ store_call.op = "set"
    /\ store_call.raised = "none"
    /\ db.max_size > 0
    /\ Len(db.order) = db.max_size
    /\ db.tagged = <<>>
    /\ db.order[Len(db.order)] = store_call.key
    /\ db.vals[store_call.key] = "v2"

\* the keys of s that are not in gone, in the order of s
Remaining(s, gone) == SelectSeq(s, LAMBDA k : k \notin gone)

\* C21: keys() lists the stored keys in the order of their most recent set:
\* a set appends the key last (taking it out of its old place if it was
\* there), a delete or an eviction keeps the relative order of the keys that
\* remain, every key is there exactly once, and get_oldest_key, get_newest
\* and get_items_reversed agree with keys().
C21_OrderOfLastSet ==
    [][LET key == store_call'.key
           gone == DOMAIN db.vals \ DOMAIN db'.vals
           n == Len(keys(db')) IN
       /\ (store_call'.op = "set" /\ store_call'.raised = "none")
             => keys(db') = Append(Remaining(keys(db), gone \cup {key}), key)
       /\ (store_call'.op # "set" \/ store_call'.raised # "none")
             => keys(db') = Remaining(keys(db), gone)
       /\ store_call'.op = "del" => gone = {key} \cap DOMAIN db.vals
       /\ \A k \in DOMAIN db'.vals :
             Cardinality({i \in 1..n : keys(db')[i] = k}) = 1
       /\ Range(keys(db')) = DOMAIN db'.vals
       /\ n > 0 => /\ get_oldest_key(db') = keys(db')[1]
                   /\ get_newest(db') = db'.vals[keys(db')[n]]
       /\ Len(get_items_reversed(db')) = n
       /\ \A i \in 1..n : get_items_reversed(db')[i] = db'.vals[keys(db')[n + 1 - i]]
      ]_vars

\* k1, k2 and k3 were set in that order, then k1 was set again with another
\* value and k2 deleted
C21_Witness ==
    /\ db.max_size = 0
    /\ keys(db) = <<"k3", "k1">>
    /\ get_oldest_key(db) = "k3"
    /\ get_items_reversed(db) = <<"v2", "v1">>
    /\ get_newest(db) = "v2"
    /\ store_call.op = "del"
    /\ store_call.key = "k2"

C34_TaggedPresent ==
    /\ Range(db.tagged) \subseteq Range(db.order)
    /\ Range(db.order) \subseteq DOMAIN db.vals

\* a store loaded after a kill inside the delete of a tagged key: the key
\* is tagged and the store does not hold it
C34_StaleTag ==
    /\ store_call.op = "killed"
    /\ "k1" \in Range(db.tagged)
    /\ "k1" \notin Range(db.order)
    /\ "k1" \notin DOMAIN db.vals

(***************************************************************************)
(* WebSocketManager: tokens and the handshake.                             *)
(*                                                                         *)
(* A message is the list of its ":"-separated parts, as msg.split(":")     *)
(* sees it; a task id is the list of its ":"-free segments, so the plan    *)
(* sub-task id "t1::task0" is <<"t1", "", "task0">>.                       *)
(***************************************************************************)
token_ttl == 30
MaxTokens == 2
MaxConns == 2
MaxNow == 32
MaxEarly == 1

Secret == "secret"
NonceNames == <<"n1", "n2", "n3", "n4">>
Nonces == {NonceNames[i] : i \in 1..MaxTokens}
WSTaskIds == {<<"t1">>, <<"t1", "", "task0">>}
WSHosts == {"h1"}

Str(s) == [isnum |-> FALSE, s |-> s, n |-> 0]
Num(n) == [isnum |-> TRUE, s |-> "", n |-> n]

\* f"{user_id}:{task_id}:{hostname}:{exp}:{nonce}", then split(":")
format_msg(user_id, task_id, hostname, exp, nonce) ==
    <<Str(user_id)>> \o [i \in DOMAIN task_id |-> Str(task_id[i])]
        \o <<Str(hostname), Num(exp), Str(nonce)>>

\* hmac.new(secret, msg, sha256).digest(): equal exactly for equal key and msg
hmac(key, msg) == [key |-> key, msg |-> msg]

build_token(user_id, task_id, hostname, exp, nonce) ==
    LET msg == format_msg(user_id, task_id, hostname, exp, nonce) IN
    [msg |-> msg, sig |-> hmac(Secret, msg)]

\* what a client without the secret can present: a signature under another
\* key, or an issued token whose exp field was raised
forge(tok) == [tok EXCEPT !.sig = hmac("guess", tok.msg)]
extend(tok) ==
    [tok EXCEPT !.msg = [i \in DOMAIN tok.msg |->
        IF tok.msg[i].isnum THEN Num(tok.msg[i].n + token_ttl) ELSE tok.msg[i]]]

NoToken == [msg |-> <<>>, sig |-> None]

\* the nonce and exp the token was issued with
token_exp(tok) == tok.msg[Len(tok.msg) - 1].n
token_nonce(tok) == tok.msg[Len(tok.msg)].s

\* _verify_token at time `at` with the nonce table `used`: the verdict, the
\* nonce table it leaves and the (user, task_id, hostname) it returns
verify_token(tok, at, used) ==
    IF hmac(Secret, tok.msg) # tok.sig
    THEN [verdict |-> "Invalid signature", used |-> used, who |-> <<>>]
    ELSE IF Len(tok.msg) < 5 \/ ~tok.msg[4].isnum
    THEN [verdict |-> "Malformed token", used |-> used, who |-> <<>>]
    ELSE LET exp == tok.msg[4].n
             nonce == tok.msg[5].s
             cleaned == [n \in {x \in DOMAIN used : used[x] > at} |-> used[n]] IN
         IF at > exp
         THEN [verdict |-> "Token expired", used |-> cleaned, who |-> <<>>]
         ELSE IF nonce \in DOMAIN cleaned
         THEN [verdict |-> "Token replay detected", used |-> cleaned, who |-> <<>>]
         ELSE [verdict |-> "accepted", used |-> Put(cleaned, nonce, exp),
               who |-> <<tok.msg[1].s, tok.msg[2].s, tok.msg[3].s>>]

InitWS ==
    /\ IdleStore
    /\ IdleTasks
    /\ now = 0
    /\ issued = {}
    /\ used_nonces = EmptyMap
    /\ clients = EmptyMap
    /\ conns = <<>>

\* time passes: the clock reaches the next of the first seconds, or a second
\* around the expiry of an issued token
Instants ==
    {t \in {now + 1} : t <= MaxEarly}
        \cup UNION {{token_exp(t) - 1, token_exp(t), token_exp(t) + 1} : t \in issued}

advance_clock ==
    /\ \E t \in Instants : t > now /\ t <= MaxNow /\ now' = t
    /\ UNCHANGED <<storeVars, taskVars, issued, used_nonces, clients, conns>>

\* issue_token
issue_token(task_id, hostname) ==
    /\ Cardinality(issued) < MaxTokens
    /\ \E nonce \in Nonces \ {token_nonce(t) : t \in issued} :
          issued' = issued \cup
              {build_token("api_user", task_id, hostname, now + token_ttl, nonce)}
    /\ UNCHANGED <<storeVars, taskVars, now, used_nonces, clients, conns>>

\* _handle_client up to the end of _handshake: the token is verified, then
\* the Sec-WebSocket-Key header is looked for, then the 101 response is sent;
\* any exception closes the socket
handshake(tok, has_key) ==
    /\ Len(conns) < MaxConns
    /\ IF tok = NoToken
       THEN /\ conns' = Append(conns, [token |-> tok, at |-> now, has_key |-> has_key,
                                       verdict |-> "No token provided", who |-> <<>>,
                                       sent101 |-> FALSE, state |-> "closed"])
            /\ UNCHANGED used_nonces
       ELSE LET v == verify_token(tok, now, used_nonces)
                ok == v.verdict = "accepted" /\ has_key IN
            /\ used_nonces' = v.used
            /\ conns' = Append(conns, [token |-> tok, at |-> now, has_key |-> has_key,
                   verdict |-> IF v.verdict = "accepted" /\ ~has_key
                               THEN "No WebSocket key" ELSE v.verdict,
                   who |-> v.who,
                   sent101 |-> ok,
                   state |-> IF ok THEN "handshaken" ELSE "closed"])
    /\ UNCHANGED <<storeVars, taskVars, now, issued, clients>>

\* _handle_client: self.clients[sock] = (user, task_id, hostname)
register(c) ==
    /\ c \in DOMAIN conns
    /\ conns[c].state = "handshaken"
    /\ clients' = Put(clients, c, conns[c].who)
    /\ conns' = [conns EXCEPT ![c].state = "registered"]
    /\ UNCHANGED <<storeVars, taskVars, now, issued, used_nonces>>

\* _handle_client: the read loop ends, the finally block unregisters and closes
disconnect(c) ==
    /\ c \in DOMAIN conns
    /\ conns[c].state = "registered"
    /\ clients' = Drop(clients, c)
    /\ conns' = [conns EXCEPT ![c].state = "closed"]
    /\ UNCHANGED <<storeVars, taskVars, now, issued, used_nonces>>

Presentable == issued \cup {forge(t) : t \in issued} \cup {extend(t) : t \in issued}
                  \cup {NoToken}

NextWS ==
    \/ advance_clock
    \/ \E task_id \in WSTaskIds, hostname \in WSHosts : issue_token(task_id, hostname)
    \/ \E tok \in Presentable, has_key \in BOOLEAN : handshake(tok, has_key)
    \/ \E c \in 1..MaxConns : register(c)
    \/ \E c \in 1..MaxConns : disconnect(c)

SpecWS == InitWS /\ [][NextWS]_vars

\* the handshake of connection c passed _verify_token
Verified(c) == conns[c].verdict \in {"accepted", "No WebSocket key"}

\* C7: once a handshake has accepted a token, every later handshake with the
\* same token is rejected: as a replay up to and including exp, as expired
\* after exp.
C7_SingleUse ==
    \A i \in DOMAIN conns : \A j \in DOMAIN conns :
        (i < j /\ conns[i].verdict = "accepted" /\ conns[j].token = conns[i].token)
            => conns[j].verdict =
                  IF conns[j].at <= token_exp(conns[j].token)
                  THEN "Token replay detected" ELSE "Token expired"

\* C8: a connection gets the 101 response and enters the client map only if
\* its token's HMAC verifies, the token is not expired and no earlier
\* handshake used its nonce; every other connection is closed without a 101
\* response and is not in the client map.
C8_OnlyValidRegistered ==
    \A j \in DOMAIN conns :
        /\ (conns[j].sent101 \/ j \in DOMAIN clients) =>
              /\ conns[j].token # NoToken
              /\ hmac(Secret, conns[j].token.msg) = conns[j].token.sig
              /\ conns[j].at <= token_exp(conns[j].token)
              /\ ~\E i \in DOMAIN conns :
                     /\ i < j
                     /\ Verified(i)
                     /\ token_nonce(conns[i].token) = token_nonce(conns[j].token)
        /\ conns[j].verdict # "accepted" =>
              /\ ~conns[j].sent101
              /\ conns[j].state = "closed"
              /\ j \notin DOMAIN clients

\* ":".join(segments): a task id as the string issue_token is given
RECURSIVE join_colon(_)
join_colon(segments) ==
    IF Len(segments) = 1 THEN segments[1]
    ELSE segments[1] \o ":" \o join_colon(Tail(segments))

\* the (user, task_id, hostname) an issued token was built for: the message
\* is the user, the segments of the task id, the hostname, exp and nonce
issued_for(tok) ==
    LET n == Len(tok.msg) IN
    <<tok.msg[1].s,
      join_colon([i \in 1..(n - 4) |-> tok.msg[i + 1].s]),
      tok.msg[n - 2].s>>

C40_Refused ==
    \E j \in DOMAIN conns :
        /\ conns[j].token \in issued
        /\ issued_for(conns[j].token) = <<"api_user", "t1::task0", "h1">>
        /\ conns[j].at <= token_exp(conns[j].token)
        /\ conns[j].verdict = "Malformed token"

\* the token issued for the task t1 was accepted and the connection
\* registered for (api_user, t1, h1)
C40_Registered ==
    \E j \in DOMAIN clients :
        /\ conns[j].token \in issued
        /\ issued_for(conns[j].token) = <<"api_user", "t1", "h1">>
        /\ clients[j] = <<"api_user", "t1", "h1">>


(***************************************************************************)
(* Spec: the server as main.py wires it: POST requests, the execute_task   *)
(* loops, the processes they start, aborts and the plan threads.           *)
(* SpecPlan: the scheduler run by execute_plan on a parent record that has *)
(* no plan_tasks key.                                                      *)
(***************************************************************************)
HostLists == {<<"h1">>, <<"h1", "h2">>, <<"ghost">>, <<"h1", "ghost">>, <<"h3">>}

Started(max_tasks) ==
    /\ db = NewDict(max_tasks)
    /\ processes = NewDict(max_tasks)
    /\ store_call = NoCall
    /\ procs = <<>>
    /\ requests = EmptyMap
    /\ plans = EmptyMap
    /\ responses = <<>>
    /\ threads = EmptyMap
    /\ IdleAux
    /\ IdleWS

Init == \E max_tasks \in MaxTasksChoices : Started(max_tasks)
InitPlan == \E max_tasks \in MaxTasksChoicesPlan : Started(max_tasks)

others == <<store_call, threads, now, issued, used_nonces, clients, conns, auxVars>>

\* str(uuid.uuid4()): an id no earlier request got
new_task_id == <<TaskNames[Len(responses) + 1]>>

NoResult == [success |-> <<>>, errors |-> <<>>, running |-> <<>>]
Frame(plan_name, ret) ==
    [plan_name |-> plan_name, idx |-> 0, task_results |-> EmptyMap, ret |-> ret]

\* TaskScheduler.execute_plan: the thread it starts, about to call
\* _execute_plan_sync
run_plan(plan_name) ==
    [pc |-> "call", stack |-> <<Frame(plan_name, "root")>>, result |-> NoResult]

\* _handle_validation_errors: the status code of the response
error_types == {"Host not allowed", "MAC not configured", "Command not allowed"}
handle_validation_errors(errors) ==
    IF \E i \in DOMAIN errors : errors[i].error \in error_types THEN "403" ELSE "500"

\* do_POST (action is "wakeup" with command_name None, or "command")
do_POST(action, command_name, hosts) ==
    /\ Len(responses) < MaxRequests
    /\ LET is_execution_plan == command_name \in PlanNames
           v == validate_hosts(hosts, action, command_name)
           entries == IF is_execution_plan THEN <<PlanEntry[command_name]>>
                      ELSE v.entries
           task_id == new_task_id
           created == set_item(db, task_id,
                          task_data(command_name, entries,
                              IF is_execution_plan THEN command_name ELSE None))
           registered == set_item(processes, task_id, EmptyMap) IN
       IF ~is_execution_plan /\ v.errors # <<>>
       THEN /\ responses' = Append(responses, [code |-> handle_validation_errors(v.errors),
                                               task_id |-> None])
            /\ UNCHANGED <<db, processes, requests, plans>>
       ELSE IF created.raised # "none"
       THEN /\ responses' = Append(responses, [code |-> "500", task_id |-> None])
            /\ UNCHANGED <<db, processes, requests, plans>>
       ELSE IF registered.raised # "none"
       THEN /\ responses' = Append(responses, [code |-> "500", task_id |-> None])
            /\ db' = created.d
            /\ UNCHANGED <<processes, requests, plans>>
       ELSE /\ responses' = Append(responses, [code |-> "task", task_id |-> task_id])
            /\ db' = created.d
            /\ processes' = registered.d
            /\ IF is_execution_plan
               THEN /\ plans' = Put(plans, task_id, run_plan(command_name))
                    /\ UNCHANGED requests
               ELSE /\ requests' = Put(requests, task_id,
                           [action |-> action, command |-> command_name,
                            entries |-> entries, todo |-> entries])
                    /\ UNCHANGED plans
    /\ UNCHANGED <<procs, others>>

\* TaskScheduler.execute_plan called by a client that stored the parent
\* record itself, without a plan_tasks key (the case
\* _update_plan_task_status provides for)
execute_plan(plan_name) ==
    /\ Cardinality(DOMAIN plans) < MaxPlanRuns
    /\ LET task_id == <<TaskNames[Cardinality(DOMAIN plans) + 1]>>
           created == set_item(db, task_id,
                          [task_data(plan_name, <<PlanEntry[plan_name]>>, plan_name)
                              EXCEPT !.plan_tasks = NoPlanTasks])
           registered == set_item(processes, task_id, EmptyMap) IN
       /\ created.raised = "none"
       /\ registered.raised = "none"
       /\ db' = created.d
       /\ processes' = registered.d
       /\ plans' = Put(plans, task_id, run_plan(plan_name))
    /\ UNCHANGED <<procs, requests, responses, others>>

\* mutant of dispatch_sync: an error of one host ends the loop
dispatch_sync_raises(task_id, error) ==
    LET hostname == Head(requests[task_id].todo) IN
    /\ IF task_id \in DOMAIN db.vals
       THEN /\ db' = atomic_task_update(db, task_id, hostname, error)
            /\ requests' = [requests EXCEPT ![task_id].todo =
                                IF error = "" THEN Tail(@) ELSE <<>>]
       ELSE /\ db' = db
            /\ requests' = [requests EXCEPT ![task_id].todo = <<>>]
    /\ UNCHANGED <<processes, procs, plans, responses, others>>

\* one turn of the loop of execute_task that ends in _atomic_task_update;
\* a task the store no longer holds raises KeyError out of the loop
dispatch_sync(task_id, error) ==
    LET hostname == Head(requests[task_id].todo) IN
    /\ IF task_id \in DOMAIN db.vals
       THEN /\ db' = atomic_task_update(db, task_id, hostname, error)
            /\ requests' = [requests EXCEPT ![task_id].todo = Tail(@)]
       ELSE /\ db' = db
            /\ requests' = [requests EXCEPT ![task_id].todo = <<>>]
    /\ UNCHANGED <<processes, procs, plans, responses, others>>

Dispatching(task_id) ==
    /\ task_id \in DOMAIN requests
    /\ requests[task_id].todo # <<>>

\* execute_wakeup: send_wol may raise
execute_wakeup(task_id) ==
    /\ Dispatching(task_id)
    /\ requests[task_id].action = "wakeup"
    /\ \E error \in {"", "send_wol failed"} : dispatch_sync(task_id, error)

\* execute_shell_sync
execute_shell_sync(task_id) ==
    /\ Dispatching(task_id)
    /\ requests[task_id].action = "command"
    /\ command_type(requests[task_id].command) = "shell"
    /\ command_is_sync(requests[task_id].command)
    /\ \E error \in {"", "Exit code", "Failed to start", "Timeout"} :
          dispatch_sync(task_id, error)

\* execute_http_sync: HTTPProcess.run_sync ends in _update_tasks
execute_http_sync(task_id) ==
    /\ Dispatching(task_id)
    /\ requests[task_id].action = "command"
    /\ command_type(requests[task_id].command) = "http"
    /\ command_is_sync(requests[task_id].command)
    /\ \E error \in {"", "HTTP error"}, output \in Outputs :
          db' = update_tasks(db, task_id, Head(requests[task_id].todo), error, output)
    /\ requests' = [requests EXCEPT ![task_id].todo = Tail(@)]
    /\ UNCHANGED <<processes, procs, plans, responses, others>>

\* execute_shell_async and execute_http_async: the process object is put
\* in processes[task_id] and its thread started
execute_async(task_id) ==
    /\ Dispatching(task_id)
    /\ requests[task_id].action = "command"
    /\ ~command_is_sync(requests[task_id].command)
    /\ Len(procs) < MaxProcs
    /\ LET hostname == Head(requests[task_id].todo)
           type == command_type(requests[task_id].command) IN
       IF task_id \notin DOMAIN processes.vals
       THEN dispatch_sync(task_id, "KeyError")
       ELSE /\ procs' = Append(procs,
                    [task_id |-> task_id, hostname |-> hostname, type |-> type,
                     state |-> "pending",
                     rc |-> None, aborted |-> FALSE])
            /\ processes' = [processes EXCEPT
                    !.vals[task_id] = Put(@, hostname, Len(procs) + 1)]
            /\ requests' = [requests EXCEPT ![task_id].todo = Tail(@)]
            /\ UNCHANGED <<db, plans, responses, others>>

\* StreamableProcess.run_async.target: subprocess.Popen starts the process
\* or raises
proc_start(i, ok) ==
    /\ i \in DOMAIN procs
    /\ procs[i].type = "shell"
    /\ procs[i].state = "pending"
    /\ procs' = [procs EXCEPT ![i].state = IF ok THEN "running" ELSE "exited",
                              ![i].rc = IF ok THEN None ELSE "nostart"]
    /\ UNCHANGED <<db, processes, requests, plans, responses, others>>

\* StreamableProcess.run_async.target up to the end of proc.wait(): the
\* process ended with a return code
proc_exit(i, rc) ==
    /\ i \in DOMAIN procs
    /\ procs[i].type = "shell"
    /\ procs[i].state = "running"
    /\ procs' = [procs EXCEPT ![i].state = "exited", ![i].rc = rc]
    /\ UNCHANGED <<db, processes, requests, plans, responses, others>>

\* the error StreamableProcess._update_task records ("" for success)
shell_error(proc) ==
    IF proc.rc = "nostart" THEN "Popen failed"
    ELSE IF proc.aborted THEN "Aborted"
    ELSE IF proc.rc = "0" THEN ""
    ELSE "Exit code"

\* StreamableProcess.run_async.target: the closing _update_task
proc_update(i) ==
    /\ i \in DOMAIN procs
    /\ procs[i].type = "shell"
    /\ procs[i].state = "exited"
    /\ procs' = [procs EXCEPT ![i].state = "done"]
    /\ db' = update_task(db, procs[i].task_id, procs[i].hostname, shell_error(procs[i]))
    /\ UNCHANGED <<processes, requests, plans, responses, others>>

\* HTTPProcess.run_async.target: the request is made only if not aborted
http_start(i) ==
    /\ i \in DOMAIN procs
    /\ procs[i].type = "http"
    /\ procs[i].state = "pending"
    /\ procs' = [procs EXCEPT ![i].state =
                    IF procs[i].aborted THEN "done" ELSE "inflight"]
    /\ UNCHANGED <<db, processes, requests, plans, responses, others>>

\* HTTPProcess._execute_http: the answer or the exception, then _update_tasks
http_finish(i, ok, output) ==
    /\ i \in DOMAIN procs
    /\ procs[i].type = "http"
    /\ procs[i].state = "inflight"
    /\ procs' = [procs EXCEPT ![i].state = "done"]
    /\ db' = IF procs[i].aborted
             THEN update_tasks(db, procs[i].task_id, procs[i].hostname,
                               "Task aborted", <<>>)
             ELSE update_tasks(db, procs[i].task_id, procs[i].hostname,
                               IF ok THEN "" ELSE "HTTP error", output)
    /\ UNCHANGED <<processes, requests, plans, responses, others>>

\* mutant of abort: the loop stops after the first process
abort_first_only(task_id) ==
    /\ contains(db, task_id)
    /\ LET mine == IF task_id \in DOMAIN processes.vals
                   THEN Range(processes.vals[task_id]) ELSE {} IN
       /\ mine # {}
       /\ LET first == CHOOSE i \in mine : \A j \in mine : i <= j IN
          procs' = [procs EXCEPT ![first] =
                       IF @.type = "shell" /\ @.state = "running"
                       THEN [@ EXCEPT !.aborted = TRUE,
                                      !.state = "exited", !.rc = "terminated"]
                       ELSE [@ EXCEPT !.aborted = TRUE]]
    /\ procs' # procs
    /\ UNCHANGED <<db, processes, requests, plans, responses, others>>

\* _serve_abort: abort() on every process object of the task: the flag is
\* set and _terminate ends the process if it was started and has not ended
\* (a call that finds no process to change leaves the state as it is)
abort(task_id) ==
    /\ contains(db, task_id)
    /\ LET mine == IF task_id \in DOMAIN processes.vals
                   THEN Range(processes.vals[task_id]) ELSE {} IN
       procs' = [i \in DOMAIN procs |->
                   IF i \notin mine THEN procs[i]
                   ELSE IF procs[i].type = "shell" /\ procs[i].state = "running"
                   THEN [procs[i] EXCEPT !.aborted = TRUE,
                                         !.state = "exited", !.rc = "terminated"]
                   ELSE [procs[i] EXCEPT !.aborted = TRUE]]
    /\ procs' # procs
    /\ UNCHANGED <<db, processes, requests, plans, responses, others>>


(***************************************************************************)
(* The plan thread: _execute_plan_sync as a stack of frames, one per       *)
(* nested call.  The task_results of a frame are the values read from the  *)
(* store when the sub-task was collected.  An exception unwinds every      *)
(* frame to the except branch of run_plan.                                 *)
(***************************************************************************)
Top(p) == plans[p].stack[Len(plans[p].stack)]
sequence_of(p) == build_execution_sequence(execution_plans[Top(p).plan_name])
task_info(p) == sequence_of(p)[Top(p).idx + 1]
task_idx_of(p) == task_info(p).original_index
plan_task_of(p) == execution_plans[Top(p).plan_name].tasks[task_idx_of(p) + 1]

set_pc(p, pc) == plans' = [plans EXCEPT ![p].pc = pc]
set_top(p, pc, frame) ==
    plans' = [plans EXCEPT ![p].pc = pc,
                           ![p].stack = [@ EXCEPT ![Len(@)] = frame]]

\* run_plan: except Exception
plan_failed(p) ==
    /\ db' = plan_failed_update(db, p)
    /\ plans' = [plans EXCEPT ![p] = [pc |-> "failed", stack |-> <<>>,
                                      result |-> NoResult]]

At(p, pc) == p \in DOMAIN plans /\ plans[p].pc = pc

\* _execute_plan_sync: validate_plan and the sequence
plan_call(p) ==
    /\ At(p, "call")
    /\ IF validate_plan(Top(p).plan_name)
       THEN set_pc(p, "loop") /\ UNCHANGED db
       ELSE plan_failed(p)
    /\ UNCHANGED <<processes, procs, requests, responses, others>>

\* the loop is over: the closing block of _execute_plan_sync, then the
\* return to the caller (run_plan, the referring plan, _execute_plan_task)
plan_loop_end(p) ==
    /\ At(p, "loop")
    /\ Top(p).idx >= Len(sequence_of(p))
    /\ db' = plan_end_update(db, p)
    /\ LET stack == plans[p].stack
           n == Len(stack)
           rest == SubSeq(stack, 1, n - 1) IN
       IF n = 1
       THEN plans' = [plans EXCEPT ![p].pc = "done", ![p].stack = <<>>]
       ELSE IF stack[n].ret = "ref"
       THEN plans' = [plans EXCEPT
                ![p].pc = "loop",
                ![p].stack = [rest EXCEPT ![n - 1].idx = @ + 1]]
       ELSE plans' = [plans EXCEPT
                ![p].pc = "after", ![p].stack = rest, ![p].result = NoResult]
    /\ UNCHANGED <<processes, procs, requests, responses, others>>

\* task_type == "plan": the referenced plan runs in a nested call
plan_enter_ref(p) ==
    /\ At(p, "loop")
    /\ Top(p).idx < Len(sequence_of(p))
    /\ task_info(p).type = "plan"
    /\ plans' = [plans EXCEPT
            ![p].pc = "call",
            ![p].stack = Append(@, Frame(task_info(p).plan_name, "ref"))]
    /\ UNCHANGED <<db, processes, procs, requests, responses, others>>

\* _update_plan_task_status(parent_task_id, task_idx, "scheduled")
plan_schedule(p) ==
    /\ At(p, "loop")
    /\ Top(p).idx < Len(sequence_of(p))
    /\ task_info(p).type = "task"
    /\ LET u == update_plan_task_status(db, p, task_idx_of(p), "scheduled") IN
       IF u.raised # "none" THEN plan_failed(p)
       ELSE db' = u.d /\ set_pc(p, "check")
    /\ UNCHANGED <<processes, procs, requests, responses, others>>

\* mutant of plan_check: the task does not wait for its execute_after task
plan_check_no_barrier(p) ==
    /\ At(p, "check")
    /\ LET plan_task == plan_task_of(p)
           task_idx == task_idx_of(p) IN
       IF ~check_conditions(plan_task, Top(p).task_results, task_idx)
       THEN /\ db' = update_plan_task_status(db, p, task_idx, "skipped").d
            /\ set_top(p, "loop", [Top(p) EXCEPT !.idx = @ + 1])
       ELSE /\ db' = update_plan_task_status(db, p, task_idx, "waiting").d
            /\ set_pc(p, "exec")
    /\ UNCHANGED <<processes, procs, requests, responses, others>>

\* _check_conditions, the execute_after wait and the "skipped" or "waiting"
\* status; task_results is local to the thread, so a wait that starts
\* never ends
plan_check(p) ==
    /\ At(p, "check")
    /\ LET plan_task == plan_task_of(p)
           task_idx == task_idx_of(p) IN
       IF ~check_conditions(plan_task, Top(p).task_results, task_idx)
       THEN /\ db' = update_plan_task_status(db, p, task_idx, "skipped").d
            /\ set_top(p, "loop", [Top(p) EXCEPT !.idx = @ + 1])
       ELSE IF /\ plan_task.execute_after # NoIdx
               /\ plan_task.execute_after \notin DOMAIN Top(p).task_results
       THEN set_pc(p, "sleep") /\ UNCHANGED db
       ELSE /\ db' = update_plan_task_status(db, p, task_idx, "waiting").d
            /\ set_pc(p, "exec")
    /\ UNCHANGED <<processes, procs, requests, responses, others>>

\* _execute_plan_task up to the call of execute_task
plan_exec(p) ==
    /\ At(p, "exec")
    /\ LET plan_task == plan_task_of(p)
           command_name == plan_task.command
           v == validate_hosts(plan_task.hostnames, "command", command_name)
           sub == sub_task_id(p, task_idx_of(p))
           created == set_item(db, sub, task_data(command_name, plan_task.hostnames, None))
           registered == set_item(processes, sub, EmptyMap) IN
       IF command_name \in PlanNames
       THEN /\ plans' = [plans EXCEPT
                    ![p].pc = "call",
                    ![p].stack = Append(@, Frame(command_name, "cmd"))]
            /\ UNCHANGED <<db, processes, requests>>
       ELSE IF v.errors # <<>>
       THEN /\ plans' = [plans EXCEPT
                    ![p].pc = "after",
                    ![p].result = [success |-> <<>>, errors |-> v.errors,
                                   running |-> <<>>]]
            /\ UNCHANGED <<db, processes, requests>>
       ELSE IF created.raised # "none"
       THEN plan_failed(p) /\ UNCHANGED <<processes, requests>>
       ELSE IF registered.raised # "none"
       THEN /\ db' = plan_failed_update(created.d, p)
            /\ plans' = [plans EXCEPT ![p] = [pc |-> "failed", stack |-> <<>>,
                                              result |-> NoResult]]
            /\ UNCHANGED <<processes, requests>>
       ELSE /\ db' = created.d
            /\ processes' = registered.d
            /\ requests' = Put(requests, sub,
                   [action |-> "command", command |-> command_name,
                    entries |-> v.entries, todo |-> v.entries])
            /\ set_pc(p, "dispatch")
    /\ UNCHANGED <<procs, responses, others>>

\* the sub-task as _execute_plan_task collects it, and the "completed" status
collect(p) ==
    LET sub == sub_task_id(p, task_idx_of(p)) IN
    IF sub \notin DOMAIN db.vals THEN plan_failed(p)
    ELSE /\ db' = update_plan_task_status(db, p, task_idx_of(p), "completed").d
         /\ plans' = [plans EXCEPT
                ![p].pc = "after",
                ![p].result = [success |-> db.vals[sub].success,
                               errors |-> db.vals[sub].errors,
                               running |-> db.vals[sub].running]]

Dispatched(p) ==
    /\ At(p, "dispatch")
    /\ requests[sub_task_id(p, task_idx_of(p))].todo = <<>>

\* the wait loop of _execute_plan_task ends because nothing runs
plan_wait_done(p) ==
    /\ Dispatched(p)
    /\ sub_task_id(p, task_idx_of(p)) \in DOMAIN db.vals
    /\ db.vals[sub_task_id(p, task_idx_of(p))].running = <<>>
    /\ collect(p)
    /\ UNCHANGED <<processes, procs, requests, responses, others>>

\* the wait loop ends because max_wait has passed
plan_wait_timeout(p) ==
    /\ Dispatched(p)
    /\ \/ sub_task_id(p, task_idx_of(p)) \notin DOMAIN db.vals
       \/ db.vals[sub_task_id(p, task_idx_of(p))].running # <<>>
    /\ collect(p)
    /\ UNCHANGED <<processes, procs, requests, responses, others>>

\* back in the loop: task_results, the parent's progress and the branch
plan_after(p) ==
    /\ At(p, "after")
    /\ LET result == plans[p].result
           u == update_parent_task_progress(db, p)
           frame == [Top(p) EXCEPT
                        !.task_results = Put(@, task_idx_of(p), result),
                        !.idx = next_index(sequence_of(p), Top(p).idx,
                                           plan_task_of(p), result)] IN
       IF u.raised # "none" THEN plan_failed(p)
       ELSE db' = u.d /\ set_top(p, "loop", frame)
    /\ UNCHANGED <<processes, procs, requests, responses, others>>

Next ==
    \/ \E hosts \in HostLists : do_POST("wakeup", None, hosts)
    \/ \E command_name \in Commands \cup PlanNames, hosts \in HostLists :
          do_POST("command", command_name, hosts)
    \/ \E task_id \in DOMAIN requests : execute_wakeup(task_id)
    \/ \E task_id \in DOMAIN requests : execute_shell_sync(task_id)
    \/ \E task_id \in DOMAIN requests : execute_http_sync(task_id)
    \/ \E task_id \in DOMAIN requests : execute_async(task_id)
    \/ \E i \in DOMAIN procs, ok \in BOOLEAN : proc_start(i, ok)
    \/ \E i \in DOMAIN procs, rc \in {"0", "1"} : proc_exit(i, rc)
    \/ \E i \in DOMAIN procs : proc_update(i)
    \/ \E i \in DOMAIN procs : http_start(i)
    \/ \E i \in DOMAIN procs, ok \in BOOLEAN, output \in Outputs :
          http_finish(i, ok, output)
    \/ \E task_id \in DOMAIN db.vals : abort(task_id)
    \/ \E p \in DOMAIN plans : plan_call(p)
    \/ \E p \in DOMAIN plans : plan_loop_end(p)
    \/ \E p \in DOMAIN plans : plan_enter_ref(p)
    \/ \E p \in DOMAIN plans : plan_schedule(p)

Spec == Init /\ [][Next]_vars

NextPlan ==
    \/ \E plan_name \in PlanNames : execute_plan(plan_name)
    \/ \E task_id \in DOMAIN requests : execute_shell_sync(task_id)
    \/ \E task_id \in DOMAIN requests : execute_http_sync(task_id)
    \/ \E task_id \in DOMAIN requests : execute_async(task_id)
    \/ \E i \in DOMAIN procs, ok \in BOOLEAN : proc_start(i, ok)
    \/ \E i \in DOMAIN procs, rc \in {"0", "1"} : proc_exit(i, rc)
    \/ \E i \in DOMAIN procs : proc_update(i)
    \/ \E task_id \in DOMAIN db.vals : abort(task_id)
    \/ \E p \in DOMAIN plans : plan_call(p)
    \/ \E p \in DOMAIN plans : plan_loop_end(p)
    \/ \E p \in DOMAIN plans : plan_enter_ref(p)
    \/ \E p \in DOMAIN plans : plan_schedule(p)
    \/ \E p \in DOMAIN plans : plan_check(p)
    \/ \E p \in DOMAIN plans : plan_exec(p)
    \/ \E p \in DOMAIN plans : plan_wait_done(p)
    \/ \E p \in DOMAIN plans : plan_wait_timeout(p)
    \/ \E p \in DOMAIN plans : plan_after(p)

SpecPlan == InitPlan /\ [][NextPlan]_vars

\* the steps of the plan thread p
plan_step(p) ==
    \/ plan_call(p)
    \/ plan_loop_end(p)
    \/ plan_enter_ref(p)
    \/ plan_schedule(p)
    \/ plan_check(p)
    \/ plan_exec(p)
    \/ plan_wait_done(p)
    \/ plan_wait_timeout(p)
    \/ plan_after(p)

\* SpecPlan with every thread scheduled again and again and every started
\* process of a sub-task ending: the plan thread, the dispatch of a
\* sub-task by that thread, and the process threads
SpecPlanFair ==
    /\ SpecPlan
    /\ \A p \in {<<TaskNames[n]>> : n \in 1..MaxPlanRuns} : WF_vars(plan_step(p))
    /\ \A p \in {<<TaskNames[n]>> : n \in 1..MaxPlanRuns}, idx \in DOMAIN TaskSegs :
          WF_vars(\/ execute_shell_sync(sub_task_id(p, idx - 1))
                  \/ execute_http_sync(sub_task_id(p, idx - 1))
                  \/ execute_async(sub_task_id(p, idx - 1)))
    /\ \A i \in 1..MaxProcs :
          /\ WF_vars(\E ok \in BOOLEAN : proc_start(i, ok))
          /\ WF_vars(\E rc \in {"0", "1"} : proc_exit(i, rc))
          /\ WF_vars(proc_update(i))

C36_Overwritten ==
    /\ At(<<"t1">>, "dispatch")
    /\ Top(<<"t1">>).plan_name = "outer"
    /\ Len(plans[<<"t1">>].stack) = 1
    /\ db.vals[<<"t1", "", "task0">>].command = "async_sh"
    /\ <<"t1", "", "task1">> \in DOMAIN db.vals

\* the hosts recorded in a list of results
hosts_of(results) == {results[i].hostname : i \in DOMAIN results}

C37_Restarted ==
    /\ At(<<"t1">>, "dispatch")
    /\ Top(<<"t1">>).plan_name = "retry"
    /\ 0 \in DOMAIN Top(<<"t1">>).task_results
    /\ Top(<<"t1">>).task_results[0].errors # <<>>
    /\ ~db.vals[<<"t1", "", "task0">>].end_timestamp
    /\ db.vals[<<"t1", "", "task0">>].errors = <<>>

C35_Waiting ==
    \E p \in DOMAIN plans :
        /\ plans[p].pc = "sleep"
        /\ plan_task_of(p).execute_after \notin DOMAIN Top(p).task_results

(***************************************************************************)
(* SpecRecover: the server with a tasks file (CONCIERGE_TASKS_FILE_PATH),  *)
(* killed at any moment and started again.  The store comes back from the  *)
(* file as the last completed store call left it; the processes map, the   *)
(* processes and every thread are gone.                                    *)
(***************************************************************************)
MaxRestarts == 2
BootNames == <<"boot1", "boot2", "boot3", "boot4">>

InitRecover ==
    /\ \E max_tasks \in MaxTasksChoices :
          /\ db = NewStore(TasksFile, max_tasks)
          /\ processes = NewDict(max_tasks)
    /\ store_call = NoCall
    /\ procs = <<>>
    /\ requests = EmptyMap
    /\ plans = EmptyMap
    /\ responses = <<>>
    /\ threads = EmptyMap
    /\ IdleAux
    /\ IdleWS

\* how many times main has run recover_dropped_tasks since the first start
boots ==
    IF store_call.op # "recover" THEN 0
    ELSE CHOOSE i \in DOMAIN BootNames : BootNames[i] = store_call.value

\* main after a kill: db and processes are built again, then
\* recover_dropped_tasks(db)
restart ==
    /\ boots < MaxRestarts
    /\ db' = recover_dropped_tasks([db EXCEPT !.lock = Unlocked])
    /\ processes' = NewDict(processes.max_size)
    /\ procs' = <<>>
    /\ requests' = EmptyMap
    /\ plans' = EmptyMap
    /\ store_call' = [op |-> "recover", key |-> None,
                      value |-> BootNames[boots + 1], raised |-> "none"]
    /\ UNCHANGED <<responses, threads, wsVars>>

NextRecover ==
    \/ \E hosts \in HostLists : do_POST("wakeup", None, hosts)
    \/ \E command_name \in Commands \cup PlanNames, hosts \in HostLists :
          do_POST("command", command_name, hosts)
    \/ \E task_id \in DOMAIN requests : execute_wakeup(task_id)
    \/ \E task_id \in DOMAIN requests : execute_shell_sync(task_id)
    \/ \E task_id \in DOMAIN requests : execute_async(task_id)
    \/ \E i \in DOMAIN procs, ok \in BOOLEAN : proc_start(i, ok)
    \/ \E i \in DOMAIN procs, rc \in {"0", "1"} : proc_exit(i, rc)
    \/ \E i \in DOMAIN procs : proc_update(i)
    \/ \E p \in DOMAIN plans : plan_call(p)
    \/ \E p \in DOMAIN plans : plan_schedule(p)
    \/ restart

SpecRecover == InitRecover /\ [][NextRecover]_vars

\* C32: a task whose running list is not empty is never tagged for removal
\* and never leaves the store: every tagged key is that of a record with an
\* empty running list, and a record that a step removes from the store had
\* an empty running list.
C32_OnlyFinishedEvicted ==
    /\ [](\A k \in Range(db.tagged) :
             k \in DOMAIN db.vals => db.vals[k].running = <<>>)
    /\ [][\A k \in DOMAIN db.vals :
             k \notin DOMAIN db'.vals => db.vals[k].running = <<>>]_vars

\* with room for one task: the first task was recovered, tagged and evicted
\* by the second, which a later start recovered and tagged
C32_Witness ==
    /\ db.max_size = 1
    /\ db.tagged = <<<<"t2">>>>
    /\ <<"t1">> \notin DOMAIN db.vals
    /\ db.vals[<<"t2">>].running = <<>>
    /\ db.vals[<<"t2">>].errors # <<>>

(***************************************************************************)
(* The handlers with the X-API-Key header of the request: every handler    *)
(* of a path under /concierge/api/v1/ calls _auth_check before anything    *)
(* else.  Here responses holds the answers to every request but an abort   *)
(* and an issued token.                                                    *)
(***************************************************************************)
\* Handler.api_key: CONCIERGE_API_KEY, which main() requires to be set and
\* also hands to the WebSocketManager as its secret
api_key == Secret

\* self.headers.get("X-API-Key"): the key, another string, or no header
Headers == {Secret, "guess", None}

\* mutant of _auth_check: a request without the header passes
auth_check_header_optional(header) == header = None \/ header = api_key

\* _auth_check
auth_check(header) == header = api_key

\* _send_response(code, ...) of a handler that changes nothing else
answer(code) ==
    /\ Len(responses) < MaxRequests
    /\ responses' = Append(responses, [code |-> code, task_id |-> None])
    /\ UNCHANGED <<db, processes, procs, requests, plans, others>>

\* do_POST from its first line
handle_POST(header, action, command_name, hosts) ==
    IF auth_check(header) THEN do_POST(action, command_name, hosts) ELSE answer("401")

\* do_PUT on /tasks/<task_id>/abort
do_PUT(header, task_id) ==
    IF auth_check(header) THEN abort(task_id) ELSE answer("401")

\* do_GET on /tasks/<task_id>
do_GET(header, task_id) ==
    IF auth_check(header)
    THEN answer(IF contains(db, task_id) THEN "200" ELSE "404")
    ELSE answer("401")

\* _serve_ws_token
serve_ws_token(header, task_id, hostname) ==
    IF auth_check(header)
    THEN contains(db, task_id) /\ issue_token(task_id, hostname)
    ELSE answer("401")

AuthHostLists == {<<"h1">>, <<"ghost">>}
AuthTaskIds == {<<TaskNames[i]>> : i \in 1..MaxRequests}

NextAuth ==
    \/ \E header \in Headers, hosts \in AuthHostLists :
          handle_POST(header, "command", "async_sh", hosts)
    \/ \E header \in Headers, task_id \in AuthTaskIds : do_PUT(header, task_id)
    \/ \E header \in Headers, task_id \in AuthTaskIds : do_GET(header, task_id)
    \/ \E header \in Headers, task_id \in AuthTaskIds, hostname \in WSHosts :
          serve_ws_token(header, task_id, hostname)
    \/ \E task_id \in DOMAIN requests : execute_async(task_id)
    \/ \E i \in DOMAIN procs, ok \in BOOLEAN : proc_start(i, ok)
    \/ \E i \in DOMAIN procs, rc \in {"0", "1"} : proc_exit(i, rc)
    \/ \E i \in DOMAIN procs : proc_update(i)

SpecAuth == Init /\ [][NextAuth]_vars

(***************************************************************************)
(* SpecRead: the completion handlers one statement at a time, and the      *)
(* handlers that read a task.  In memory the store hands out the stored    *)
(* dict itself, so a statement on `task` changes the stored record; on a   *)
(* shelve file every read unpickles a copy and only db[task_id] = task     *)
(* writes it back.  A thread is in threads from the statement that takes   *)
(* db.lock to the one that leaves it; a reader stays, with what it sent.   *)
(***************************************************************************)
MaxReads == 1

Readers == {"r1"}
\* the thread of process object i, and the handler thread of a request
ProcThreads == <<"p1", "p2", "p3", "p4", "p5">>
PostThread(task_id) == task_id[1]

in_memory == db.filepath = None

InitRead ==
    /\ \E filepath \in {None, TasksFile} : db = NewStore(filepath, 0)
    /\ processes = NewDict(0)
    /\ store_call = NoCall
    /\ procs = <<>>
    /\ requests = EmptyMap
    /\ plans = EmptyMap
    /\ responses = <<>>
    /\ threads = EmptyMap
    /\ IdleAux
    /\ IdleWS

\* with self.db.lock: task = self.db.get(task_id); `first` is the statement
\* that comes first, the append of the result or the remove from running
enter_update(w, task_id, hostname, error, first, proc) ==
    /\ w \notin DOMAIN threads
    /\ db.lock.count = 0
    /\ task_id \in DOMAIN db.vals
    /\ db' = [db EXCEPT !.lock = [owner |-> w, count |-> 1]]
    /\ threads' = Put(threads, w,
           [pc |-> "got", task_id |-> task_id, hostname |-> hostname,
            error |-> error, first |-> first, proc |-> proc,
            task |-> db.vals[task_id]])
    /\ UNCHANGED <<store_call, processes, procs, requests, plans, responses, wsVars>>

\* StreamableProcess._update_task from its first line (the store of
\* SpecRead has no capacity limit, so the record is there)
update_task_enter(i) ==
    /\ i \in DOMAIN procs
    /\ procs[i].type = "shell"
    /\ procs[i].state = "exited"
    /\ enter_update(ProcThreads[i], procs[i].task_id, procs[i].hostname,
                    shell_error(procs[i]), "append", i)

\* execute_wakeup: send_wol, then _atomic_task_update from its first line
atomic_task_update_enter(task_id) ==
    /\ Dispatching(task_id)
    /\ requests[task_id].action = "wakeup"
    /\ \E error \in {"", "send_wol failed"} :
          enter_update(PostThread(task_id), task_id, Head(requests[task_id].todo),
                       error, "remove", 0)

\* a statement that changes `task`: in memory `task` is the stored dict
statement(w, task, pc) ==
    /\ threads' = [threads EXCEPT ![w].task = task, ![w].pc = pc]
    /\ db' = IF in_memory THEN [db EXCEPT !.vals[threads[w].task_id] = task] ELSE db
    /\ UNCHANGED <<store_call, processes, procs, requests, plans, responses, wsVars>>

appended(w) == record_result(threads[w].task, threads[w].hostname, threads[w].error)
removed(w) == leave_running(threads[w].task, threads[w].hostname)

\* task[field].append(...) in _update_task, task["running"].remove(...) in
\* _atomic_task_update
update_first(w) ==
    /\ w \in DOMAIN threads
    /\ threads[w].pc = "got"
    /\ statement(w, IF threads[w].first = "append" THEN appended(w) ELSE removed(w),
                 "half")

\* the other of the two statements
update_second(w) ==
    /\ w \in DOMAIN threads
    /\ threads[w].pc = "half"
    /\ statement(w, IF threads[w].first = "append" THEN removed(w) ELSE appended(w),
                 "both")

\* if not task["running"]: ...; self.db[task_id] = task; the lock is left
update_store(w) ==
    /\ w \in DOMAIN threads
    /\ threads[w].pc = "both"
    /\ db' = [finish_and_store(db, threads[w].task_id, threads[w].task)
                 EXCEPT !.lock = Unlocked]
    /\ threads' = Drop(threads, w)
    /\ IF threads[w].proc = 0
       THEN /\ requests' = [requests EXCEPT ![threads[w].task_id].todo = Tail(@)]
            /\ UNCHANGED procs
       ELSE /\ procs' = [procs EXCEPT ![threads[w].proc].state = "done"]
            /\ UNCHANGED requests
    /\ UNCHANGED <<store_call, processes, plans, responses, wsVars>>

\* what reader r has sent so far
Seen(r) == IF r \in DOMAIN threads THEN threads[r].seen ELSE <<>>

\* task = self.db.get(task_id) in _serve_tasks and at the end of do_POST
read_get(r, task_id) ==
    /\ r \in DOMAIN threads => threads[r].pc = "sent"
    /\ Len(Seen(r)) < MaxReads
    /\ db.lock.count = 0
    /\ contains(db, task_id)
    /\ threads' = Put(threads, r, [pc |-> "holding", task_id |-> task_id,
                                   task |-> db.vals[task_id], seen |-> Seen(r)])
    /\ UNCHANGED <<db, store_call, processes, procs, requests, plans, responses, wsVars>>

\* self._send_response(200, task): json.dumps of what `task` is by then
read_send(r) ==
    /\ r \in DOMAIN threads
    /\ threads[r].pc = "holding"
    /\ LET task == IF in_memory THEN db.vals[threads[r].task_id] ELSE threads[r].task IN
       threads' = [threads EXCEPT ![r].pc = "sent",
                       ![r].seen = Append(@, [task_id |-> threads[r].task_id,
                                              task |-> task])]
    /\ UNCHANGED <<db, store_call, processes, procs, requests, plans, responses, wsVars>>

ReadHostLists == {<<"h1", "h2">>}

NextRead ==
    \/ \E hosts \in ReadHostLists : db.lock.count = 0 /\ do_POST("wakeup", None, hosts)
    \/ \E hosts \in ReadHostLists :
          db.lock.count = 0 /\ do_POST("command", "async_sh", hosts)
    \/ \E task_id \in DOMAIN requests : execute_async(task_id)
    \/ \E i \in DOMAIN procs, ok \in BOOLEAN : proc_start(i, ok)
    \/ \E i \in DOMAIN procs, rc \in {"0", "1"} : proc_exit(i, rc)
    \/ \E i \in DOMAIN procs : update_task_enter(i)
    \/ \E task_id \in DOMAIN requests : atomic_task_update_enter(task_id)
    \/ \E w \in DOMAIN threads : update_first(w)
    \/ \E w \in DOMAIN threads : update_second(w)
    \/ \E w \in DOMAIN threads : update_store(w)
    \/ \E r \in Readers, task_id \in DOMAIN db.vals : read_get(r, task_id)
    \/ \E r \in Readers : read_send(r)

SpecRead == InitRead /\ [][NextRead]_vars


(***************************************************************************)
(* Properties of Spec.                                                     *)
(***************************************************************************)
Tasks == DOMAIN db.vals
SuccessHosts(task) == {task.success[i].hostname : i \in DOMAIN task.success}
ErrorHosts(task) == {task.errors[i].hostname : i \in DOMAIN task.errors}

\* the plain tasks: created by do_POST for a command or a wakeup
PlainTasks == {t \in Tasks : Len(t) = 1 /\ t \in DOMAIN requests}
SubTasksOf(p) == {t \in Tasks : Len(t) = 3 /\ t[1] = p[1]}

\* C1: every task record (plain task, plan parent, sub-task) has
\* end_timestamp set if and only if its running list is empty.
C1_EndIffNotRunning ==
    \A t \in Tasks : db.vals[t].end_timestamp <=> (db.vals[t].running = <<>>)

\* C2: for a plain task, every host of the validated target set is in
\* exactly one of success, running and errors, once, and no other host is
\* in any of them, in every state from the creation of the task on.
C2_HostPartition ==
    \A t \in PlainTasks :
        LET task == db.vals[t]
            targets == Range(requests[t].entries)
            S == SuccessHosts(task)
            R == Range(task.running)
            E == ErrorHosts(task) IN
        /\ S \cup R \cup E = targets
        /\ S \cap R = {} /\ S \cap E = {} /\ R \cap E = {}
        /\ Len(task.success) + Len(task.running) + Len(task.errors)
              = Cardinality(targets)

\* a two-host plain task whose hosts have both left running, one into
\* success and one into errors
C2_Witness ==
    \E t \in PlainTasks :
        /\ Cardinality(Range(requests[t].entries)) = 2
        /\ Len(db.vals[t].success) = 1
        /\ Len(db.vals[t].errors) = 1
        /\ db.vals[t].running = <<>>

\* C3: when a host completion empties the running list of a task, the
\* record written has end_timestamp set and the key of the task is in the
\* tagged-for-removal set of the store.
C3_EndedIsTagged ==
    [][\A t \in Tasks :
          (/\ db.vals[t].running # <<>>
           /\ t \in DOMAIN db'.vals
           /\ db'.vals[t].running = <<>>)
          => /\ db'.vals[t].end_timestamp
             /\ t \in Range(db'.tagged)]_vars

\* the status recorded for plan task k in the parent p ("none" before the
\* first)
status_of(d, p, k) ==
    IF p \in DOMAIN d.vals /\ k \in DOMAIN d.vals[p].plan_tasks.status
    THEN d.vals[p].plan_tasks.status[k]
    ELSE "none"

StatusSteps ==
    {<<"none", "scheduled">>, <<"scheduled", "skipped">>,
     <<"scheduled", "waiting">>, <<"waiting", "completed">>}

\* the plans that run no other plan: no referenced plan, no task whose
\* command is a plan
FlatPlans ==
    {n \in PlanNames :
        /\ execution_plans[n].referenced_plans = <<>>
        /\ \A i \in DOMAIN execution_plans[n].tasks :
              execution_plans[n].tasks[i].command \notin PlanNames}

creates_task(action, command_name, hosts) ==
    /\ \/ command_name \in PlanNames
       \/ validate_hosts(hosts, action, command_name).errors = <<>>
    /\ Len(responses') = Len(responses) + 1
    /\ responses'[Len(responses')].code =
          IF /\ set_item(db, new_task_id, None).raised = "none"
             /\ set_item(processes, new_task_id, None).raised = "none"
          THEN "task" ELSE "500"
    /\ do_POST(action, command_name, hosts)

\* C33: after create_task either the task store and the process map both
\* hold the new task id, or create_task failed (FullDictionaryError, answer
\* 500) and neither map gained or lost an entry; and with max_tasks > 0 and
\* a finished task in the store, the creation succeeds.
C33_CreateAllOrNothing ==
    [][Len(responses') = Len(responses) + 1 =>
       \A action \in {"wakeup", "command"},
          command_name \in Commands \cup PlanNames \cup {None},
          hosts \in HostLists :
          creates_task(action, command_name, hosts) =>
             LET task_id == new_task_id
                 finished == \E k \in DOMAIN db.vals : db.vals[k].running = <<>> IN
             /\ \/ /\ task_id \in DOMAIN db'.vals
                   /\ task_id \in DOMAIN processes'.vals
                \/ /\ db' = db
                   /\ processes' = processes
                   /\ responses'[Len(responses')].code = "500"
             /\ db.max_size > 0 /\ finished => task_id \in DOMAIN db'.vals
      ]_vars

\* the store is full with a finished task and the request was refused
C33_Refused ==
    /\ db.max_size = 1
    /\ Len(responses) = 2
    /\ responses[2].code = "500"
    /\ DOMAIN db.vals = {<<"t1">>}
    /\ db.vals[<<"t1">>].running = <<>>
    /\ db.vals[<<"t1">>].end_timestamp
    /\ db.vals[<<"t1">>].success # <<>>

\* C27: on a parent created by the frontend, the step that reaches a task
\* item leaves the status "scheduled" under the index of the task in the
\* parent's plan_tasks, and the parent of a valid plan never has an
\* "Execution plan error" entry in its errors.
C27_FrontendPlan ==
    [][\A p \in DOMAIN plans :
          /\ plan_schedule(p) /\ p \in DOMAIN db'.vals
               => /\ db'.vals[p].plan_tasks.shape = "dict"
                  /\ task_idx_of(p) \in DOMAIN db'.vals[p].plan_tasks.status
                  /\ db'.vals[p].plan_tasks.status[task_idx_of(p)] = "scheduled"
          /\ p \in DOMAIN db'.vals /\ validate_plan(db'.vals[p].execution_plan)
               => \A i \in DOMAIN db'.vals[p].errors :
                     db'.vals[p].errors[i].error # "Execution plan error"
      ]_vars

\* the plan s4, valid, posted through the frontend, has failed
C27_Failed ==
    \E p \in DOMAIN plans :
        /\ plans[p].pc = "failed"
        /\ p \in DOMAIN db.vals
        /\ db.vals[p].execution_plan = "s4"
        /\ db.vals[p].plan_tasks.shape = "list"
        /\ \E i \in DOMAIN db.vals[p].errors :
              db.vals[p].errors[i].error = "Execution plan error"

\* the errors execute_task records in its except branch: str(e)
ExceptionErrors == {"send_wol failed", "KeyError"}

\* every host of a dispatch is still to be dispatched, or has a result, or
\* has a process
Accounted ==
    \A t \in PlainTasks :
        \A i \in DOMAIN requests[t].entries :
            LET h == requests[t].entries[i] IN
            \/ h \in Range(requests[t].todo)
            \/ h \in SuccessHosts(db.vals[t]) \cup ErrorHosts(db.vals[t])
            \/ \E j \in DOMAIN procs : procs[j].task_id = t /\ procs[j].hostname = h

\* C15: in a multi-host dispatch, an exception raised while one host is
\* dispatched is recorded in errors for that host only (nothing else of the
\* record changes but that host leaving running), does not leave the loop
\* (no response is sent, the hosts after it remain to be dispatched) and
\* every other host is still dispatched.
C15_ErrorIsolation ==
    [][\A t \in PlainTasks :
          LET old == db.vals[t]
              new == db'.vals[t]
              h == Head(requests[t].todo) IN
          (/\ requests[t].todo # <<>>
           /\ t \in DOMAIN db'.vals
           /\ Len(new.errors) = Len(old.errors) + 1
           /\ new.errors[Len(new.errors)].error \in ExceptionErrors)
          => /\ new.errors = Append(old.errors, [hostname |-> h,
                                  error |-> new.errors[Len(new.errors)].error])
             /\ new.success = old.success
             /\ new.running = Pop(old.running, h)
             /\ requests'[t].todo = Tail(requests[t].todo)
             /\ responses' = responses
             /\ Accounted']_vars

\* a wakeup of two hosts: the first raised, the second was sent
C15_Witness ==
    \E t \in PlainTasks :
        /\ requests[t].action = "wakeup"
        /\ requests[t].todo = <<>>
        /\ db.vals[t].errors = <<[hostname |-> "h1", error |-> "send_wol failed"]>>
        /\ db.vals[t].success = <<[hostname |-> "h2"]>>
        /\ db.vals[t].running = <<>>

\* C16: when host validation yields errors, the response is 403 exactly
\* when all requested hosts fail and every error is one of Host not
\* allowed, MAC not configured, Command not allowed; in every other case
\* with a validation error it is 500.
C16_ValidationCode ==
    [][\A action \in {"wakeup", "command"}, command_name \in Commands \cup {None},
         hosts \in HostLists :
          LET v == validate_hosts(hosts, action, command_name)
              all_fail == v.entries = <<>>
              allow_listed ==
                  \A i \in DOMAIN v.errors :
                      v.errors[i].error \in {"Host not allowed", "MAC not configured",
                                             "Command not allowed"} IN
          (/\ (action = "wakeup") = (command_name = None)
           /\ v.errors # <<>>
           /\ do_POST(action, command_name, hosts))
          => responses'[Len(responses')].code =
                 IF all_fail /\ allow_listed THEN "403" ELSE "500"]_vars

\* the process objects registered for a task
ProcsOf(t) == IF t \in DOMAIN processes.vals THEN Range(processes.vals[t]) ELSE {}

\* the work of a process object is under way: the shell process was started
\* and has not ended, or the HTTP request was sent and not yet answered
StillRunning(proc) == proc.state \in {"running", "inflight"}

\* what an abort leaves alone: the task records, the processes of the other
\* tasks, and the state of the processes that already came to their end
AbortFrame(t) ==
    /\ db' = db
    /\ \A i \in DOMAIN procs \ ProcsOf(t) : procs'[i] = procs[i]
    /\ \A i \in ProcsOf(t) :
          procs[i].state \in {"exited", "done"} =>
              procs'[i] = [procs[i] EXCEPT !.aborted = TRUE]

\* C17 as stated: PUT abort on an existing task sets the aborted flag on
\* every child process record of that task and terminates those still
\* running, while hosts that already completed are unaffected: their
\* entries in success/errors of the task record are exactly as before.
C17_AbortTerminatesRunning ==
    [][\A t \in Tasks :
          abort(t) =>
              /\ \A i \in ProcsOf(t) :
                    /\ procs'[i].aborted
                    /\ StillRunning(procs[i]) => ~StillRunning(procs'[i])
              /\ AbortFrame(t)]_vars

\* C17 amended: PUT abort on an existing task sets the aborted flag on
\* every child process record of that task and terminates the shell
\* processes that were started and have not ended; an HTTP request in
\* flight and a process not yet started keep their state and only carry
\* the flag.  Hosts that already completed are unaffected: the task record,
\* so their entries in success/errors, is exactly as before the abort.
C17_AbortFrame ==
    [][\A t \in Tasks :
          abort(t) =>
              /\ \A i \in ProcsOf(t) :
                    /\ procs'[i].aborted
                    /\ procs[i].type = "shell" /\ procs[i].state = "running"
                         => procs'[i].state = "exited" /\ procs'[i].rc = "terminated"
                    /\ procs[i].state \in {"pending", "inflight"}
                         => procs'[i].state = procs[i].state
              /\ AbortFrame(t)]_vars

\* a task of two hosts aborted after the first host succeeded: the second
\* process was terminated, the first entry is still there
C17_Witness ==
    \E t \in PlainTasks :
        /\ db.vals[t].success = <<[hostname |-> "h1"]>>
        /\ db.vals[t].running = <<"h2">>
        /\ ProcsOf(t) # {}
        /\ \A i \in ProcsOf(t) : procs[i].aborted
        /\ \E i \in ProcsOf(t) :
              /\ procs[i].hostname = "h2"
              /\ procs[i].state = "exited"
              /\ procs[i].rc = "terminated"

\* C18: every GET, POST or PUT request under /concierge/api/v1/ whose
\* X-API-Key header is missing or differs from the configured key is
\* answered 401 and has no effect: no task is created, no process is
\* dispatched or aborted, and no WebSocket token is issued.
C18_Unauthorized ==
    [][\A header \in Headers \ {api_key} :
          (\/ \E hosts \in AuthHostLists :
                 handle_POST(header, "command", "async_sh", hosts)
           \/ \E task_id \in AuthTaskIds : do_PUT(header, task_id)
           \/ \E task_id \in AuthTaskIds : do_GET(header, task_id)
           \/ \E task_id \in AuthTaskIds, hostname \in WSHosts :
                 serve_ws_token(header, task_id, hostname))
          => /\ responses' = Append(responses, [code |-> "401", task_id |-> None])
             /\ UNCHANGED <<db, processes, procs, requests, plans, issued>>]_vars

\* a request was refused while a task had a process running: the process
\* runs on, no token is out
C18_Witness ==
    /\ Len(responses) = 2
    /\ responses[2].code = "401"
    /\ responses[1].task_id \in DOMAIN db.vals
    /\ \E i \in DOMAIN procs : procs[i].state = "running" /\ ~procs[i].aborted
    /\ issued = {}

\* a record in which every host of the request is in running or has a
\* result, and none is in both
Consistent(task_id, task) ==
    LET recorded == SuccessHosts(task) \cup ErrorHosts(task) IN
    /\ Range(task.running) \cap recorded = {}
    /\ Range(requests[task_id].entries) \subseteq Range(task.running) \cup recorded

\* C19: readers observe a consistent snapshot of a task: what a read of a
\* task record concurrent with host completions sends never has a host in
\* running and in success/errors at once, nor a host taken out of running
\* and not yet recorded, in memory and on a tasks file.
C19_ConsistentSnapshot ==
    \A r \in Readers :
        \A k \in DOMAIN Seen(r) :
            Consistent(Seen(r)[k].task_id, Seen(r)[k].task)

\* the same of the reads made on a tasks file
SnapshotOnFile == ~in_memory => C19_ConsistentSnapshot

\* a read on a tasks file whose get came before a completion and whose
\* answer after it: the answer is the record as it was
ReadAcrossUpdate ==
    /\ ~in_memory
    /\ \E r \in Readers :
          \E k \in DOMAIN Seen(r) :
              /\ Seen(r)[k].task # db.vals[Seen(r)[k].task_id]
              /\ Len(Seen(r)[k].task.running) = 2

\* a call made alone on store d: the store it leaves
call_alone(d, c) ==
    IF c.op = "set" THEN set_item(d, c.key, c.value).d
    ELSE IF c.op = "del" THEN del_internal(d, c.key)
    ELSE IF c.op = "tag" THEN tag_for_removal(d, c.key)
    ELSE d

\* the calls of log made one after the other on store d
RECURSIVE Replay(_, _)
Replay(d, log) ==
    IF log = <<>> THEN d ELSE Replay(call_alone(d, Head(log)), Tail(log))

\* every call of log ended as it ends when made alone, in that order
RECURSIVE EndsAsAlone(_, _)
EndsAsAlone(d, log) ==
    \/ log = <<>>
    \/ LET c == Head(log) IN
       /\ c.raised = IF c.op = "set" THEN set_item(d, c.key, c.value).raised ELSE "none"
       /\ c.result = IF c.op = "get" THEN get(d, c.key) ELSE None
       /\ EndsAsAlone(call_alone(d, c), Tail(log))

\* the calls insert pairwise different keys
DisjointInserts(log) ==
    /\ \A i \in DOMAIN log : log[i].op = "set"
    /\ \A i, j \in DOMAIN log : i # j => log[i].key # log[j].key

\* C20: all store operations are serialized by one reentrant lock: once
\* every call has returned, the store and what each call raised and
\* returned are those of the same calls made one after the other, in the
\* order they took the lock; in particular threads inserting disjoint keys
\* without a capacity limit raise no error and leave len equal to the
\* number of keys, each key once in the order.
C20_Serialized ==
    threads = EmptyMap =>
        /\ [db EXCEPT !.lock = Unlocked] = Replay(NewDict(db.max_size), responses)
        /\ EndsAsAlone(NewDict(db.max_size), responses)
        /\ (db.max_size = 0 /\ DisjointInserts(responses)) =>
               /\ \A i \in DOMAIN responses : responses[i].raised = "none"
               /\ Len(db.order) = Len(responses)
               /\ \A i \in DOMAIN responses :
                     Cardinality({k \in DOMAIN db.order :
                                     db.order[k] = responses[i].key}) = 1

\* two threads inserted three different keys without a capacity limit, the
\* second taking the lock between two calls of the first
C20_Witness ==
    /\ threads = EmptyMap
    /\ db.max_size = 0
    /\ Len(responses) = 3
    /\ DisjointInserts(responses)
    /\ responses[1].thread = "a"
    /\ responses[2].thread = "b"
    /\ responses[3].thread = "a"
    /\ Len(db.order) = 3

(***************************************************************************)
(* Properties of SpecPlan: conditions, barriers and jumps.                 *)
(***************************************************************************)
\* the sub-predicates of if_previous_command_result on a result
ResultHolds(condition, result) ==
    /\ condition = "all_success" => result.errors = <<>>
    /\ condition = "any_success" => result.success # <<>>
    /\ condition = "all_error" => result.success = <<>>
    /\ condition = "any_error" => result.errors # <<>>

\* the output substring is present in the outputs of the result
OutputHolds(search_str, result) ==
    \/ search_str = <<>>
    \/ IsSubstring(search_str,
           join_lines(item_outputs(result.success) \o item_outputs(result.errors)))

\* j is an earlier task index with a result on which every present
\* sub-predicate holds
ConditionMet(plan_task, task_results, k) ==
    LET j == plan_task.if_previous_command IN
    /\ j < k
    /\ j \in DOMAIN task_results
    /\ ResultHolds(plan_task.if_previous_command_result, task_results[j])
    /\ OutputHolds(plan_task.if_previous_output_contains, task_results[j])

\* the plan thread p takes a step from the position pc
PlanStep(p, pc) == At(p, pc) /\ plans'[p] # plans[p]

C12_Barrier ==
    [][\A p \in DOMAIN plans :
          (\/ (PlanStep(p, "check") /\ status_of(db', p, task_idx_of(p)) = "waiting")
           \/ (PlanStep(p, "check") /\ plans'[p].pc = "exec")
           \/ (PlanStep(p, "exec") /\ requests' # requests)
           \/ (PlanStep(p, "exec") /\ db' # db))
          => \/ plan_task_of(p).execute_after = NoIdx
             \/ plan_task_of(p).execute_after \in DOMAIN Top(p).task_results]_vars

\* the task that waits for task 0 has run after it, and the task that
\* waits for a task that never runs is still waiting for it
C12_Witness ==
    \E p \in DOMAIN plans :
        /\ p \in Tasks
        /\ db.vals[p].execution_plan = "after"
        /\ 0 \in DOMAIN Top(p).task_results
        /\ status_of(db, p, 1) = "completed"
        /\ status_of(db, p, 2) = "scheduled"
        /\ plans[p].pc = "sleep"

\* the sequence positions (0-based) of the task with original index j
PositionsOf(sequence, j) ==
    {i \in 0..(Len(sequence) - 1) :
        sequence[i + 1].type = "task" /\ sequence[i + 1].original_index = j}

\* control after a jump to j: at the position of j, or past the end
JumpedTo(sequence, j, idx) ==
    IF PositionsOf(sequence, j) = {} THEN idx >= Len(sequence)
    ELSE idx \in PositionsOf(sequence, j)

\* C13: after a plan task finishes, control goes to the sequence position
\* of on_error_jump_to if the result has errors and no success and that
\* field is present; else to that of on_success_jump_to if the result has
\* a success and that field is present; else to the next sequence item; a
\* target that is no task index of the sequence ends the plan.
C13_NextItem ==
    [][\A p \in DOMAIN plans :
          (PlanStep(p, "after") /\ plans'[p].pc = "loop")
          => LET result == plans[p].result
                 plan_task == plan_task_of(p)
                 idx == plans'[p].stack[Len(plans'[p].stack)].idx IN
             /\ Len(plans'[p].stack) = Len(plans[p].stack)
             /\ IF /\ result.errors # <<>>
                   /\ result.success = <<>>
                   /\ plan_task.on_error_jump_to # NoIdx
                THEN JumpedTo(sequence_of(p), plan_task.on_error_jump_to, idx)
                ELSE IF result.success # <<>> /\ plan_task.on_success_jump_to # NoIdx
                THEN JumpedTo(sequence_of(p), plan_task.on_success_jump_to, idx)
                ELSE idx = Top(p).idx + 1]_vars

\* the first item of the reordered sequence failed and control is at the
\* position of its on_error_jump_to task, past the item in between
C13_Witness ==
    \E p \in DOMAIN plans :
        /\ At(p, "loop")
        /\ Top(p).plan_name = "hints"
        /\ Top(p).idx = 2
        /\ DOMAIN Top(p).task_results = {1}
        /\ Top(p).task_results[1].errors # <<>>

(***************************************************************************)
(* Properties of SpecRecover.                                              *)
(***************************************************************************)
\* this step is a run of recover_dropped_tasks
Recovered == store_call' # store_call /\ store_call'.op = "recover"

\* C14: after recover_dropped_tasks, every task that had a non-empty
\* running list has each of those hosts in errors with the message
\* "Process dropped during restart" (after the errors it had), running
\* empty, end_timestamp set and its key tagged for removal; every task whose
\* running list was empty is unchanged, its tag included; and a second run
\* of the recovery changes nothing.
C14_Recovery ==
    [][Recovered =>
          /\ DOMAIN db'.vals = DOMAIN db.vals
          /\ \A t \in DOMAIN db.vals :
                LET old == db.vals[t]
                    new == db'.vals[t] IN
                IF old.running # <<>>
                THEN /\ Len(new.errors) = Len(old.errors) + Len(old.running)
                     /\ \A i \in DOMAIN old.errors : new.errors[i] = old.errors[i]
                     /\ \A i \in DOMAIN old.running :
                           new.errors[Len(old.errors) + i] =
                               [hostname |-> old.running[i],
                                error |-> "Process dropped during restart"]
                     /\ new.success = old.success
                     /\ new.running = <<>>
                     /\ new.end_timestamp
                     /\ t \in Range(db'.tagged)
                ELSE /\ new = old
                     /\ (t \in Range(db'.tagged)) = (t \in Range(db.tagged))
          /\ recover_dropped_tasks(db') = db'
      ]_vars

\* after the second start the store holds a tagged task whose two hosts
\* were dropped, and a task that had ended before the kill, as it was
C14_Witness ==
    /\ store_call.op = "recover"
    /\ boots = 2
    /\ \E t \in Tasks, u \in Tasks :
          /\ t # u
          /\ t \in Range(db.tagged)
          /\ Len(db.vals[t].errors) = 2
          /\ \A i \in DOMAIN db.vals[t].errors : db.vals[t].errors[i].error = Dropped
          /\ db.vals[u].running = <<>>
          /\ db.vals[u].errors = <<>>
          /\ db.vals[u].success # <<>>


(***************************************************************************)
(* Functions called on their own.  fn holds the arguments, and after the   *)
(* call the result.                                                        *)
(***************************************************************************)
notFn == <<db, store_call, processes, procs, requests, plans, responses, threads,
           files, config, sent, child, now, issued, used_nonces, clients, conns>>

IdleButFn ==
    /\ IdleStore
    /\ IdleCore
    /\ IdleFiles
    /\ IdleRest
    /\ IdleWS

(***************************************************************************)
(* SpecCompile: _build_execution_sequence on a plan of up to MaxPlanTasks  *)
(* tasks, each with or without execute_at_position, and up to two          *)
(* referenced plans.                                                       *)
(***************************************************************************)
MaxPlanTasks == 3
PositionHints == {NoIdx} \cup (0..MaxPlanTasks)
RefLists == {<<>>, <<"s4">>, <<"s4", "retry">>, <<"s4", "s4">>}
HintLists == UNION {[1..n -> PositionHints] : n \in 0..MaxPlanTasks}
CompiledPlans ==
    {[referenced_plans |-> refs,
      tasks |-> [i \in DOMAIN hints |->
                    [PlanTask("sync_sh", <<"h1">>) EXCEPT !.execute_at_position = hints[i]]]] :
        refs \in RefLists, hints \in HintLists}

InitCompile ==
    /\ IdleButFn
    /\ \E plan \in CompiledPlans :
          fn = [op |-> "_build_execution_sequence", args |-> <<plan>>,
                result |-> <<>>, done |-> FALSE]

compile ==
    /\ ~fn.done
    /\ fn' = [fn EXCEPT !.result = build_execution_sequence(fn.args[1]), !.done = TRUE]
    /\ UNCHANGED notFn

NextCompile == compile

SpecCompile == InitCompile /\ [][NextCompile]_vars

\* the positions in s at which an item of that kind and index stands
PlacesOf(s, type, original_index) ==
    {i \in DOMAIN s : s[i].type = type /\ s[i].original_index = original_index}

\* C23: without any execute_at_position the sequence is the referenced plans
\* in order followed by the tasks in declaration order; otherwise a task with
\* execute_at_position has it as its position and a referenced plan has 0,
\* the positions never decrease along the sequence, items of equal position
\* stand in the order referenced plans first, then tasks as declared, and
\* each task and each referenced plan appears exactly once.
C23_Compilation ==
    fn.done /\ fn.op = "_build_execution_sequence" =>
        LET plan == fn.args[1]
            tasks == plan.tasks
            refs == plan.referenced_plans
            sequence == fn.result
            plan_items == SelectSeq(sequence, LAMBDA item : item.type = "plan")
            hinted == \E i \in DOMAIN tasks : tasks[i].execute_at_position # NoIdx IN
        /\ Len(sequence) = Len(refs) + Len(tasks)
        /\ [i \in DOMAIN plan_items |-> plan_items[i].plan_name] = refs
        /\ \A i \in DOMAIN tasks : Cardinality(PlacesOf(sequence, "task", i - 1)) = 1
        /\ ~hinted =>
              /\ \A i \in DOMAIN refs :
                    sequence[i].type = "plan" /\ sequence[i].plan_name = refs[i]
              /\ \A i \in DOMAIN tasks :
                    PlacesOf(sequence, "task", i - 1) = {Len(refs) + i}
        /\ hinted =>
              /\ \A i \in DOMAIN sequence :
                    /\ sequence[i].type = "plan" => sequence[i].position = 0
                    /\ sequence[i].type = "task"
                       /\ tasks[sequence[i].original_index + 1].execute_at_position # NoIdx
                         => sequence[i].position =
                              tasks[sequence[i].original_index + 1].execute_at_position
              /\ \A i, j \in DOMAIN sequence :
                    i < j =>
                      /\ sequence[i].position <= sequence[j].position
                      /\ sequence[i].position = sequence[j].position =>
                            /\ sequence[j].type = "plan" => sequence[i].type = "plan"
                            /\ sequence[i].type = "task" /\ sequence[j].type = "task"
                                 => sequence[i].original_index < sequence[j].original_index

\* a plan with one reference and the hints 1, 0, 1: the reference, then
\* task 1, then the tasks 0 and 2 as declared
C23_Witness ==
    /\ fn.done
    /\ fn.op = "_build_execution_sequence"
    /\ fn.args[1].referenced_plans = <<"s4">>
    /\ [i \in DOMAIN fn.args[1].tasks |-> fn.args[1].tasks[i].execute_at_position] = <<1, 0, 1>>
    /\ [i \in DOMAIN fn.result |-> fn.result[i].original_index] = <<NoIdx, 1, 0, 2>>


(***************************************************************************)
(* replace_json_placeholders.  A text is the sequence of its symbols: the  *)
(* characters " \ { } [ ] : , and the letters and digits one by one, and   *)
(* as one symbol each the words true, false, True, the host name and the   *)
(* text of a typed placeholder.                                            *)
(***************************************************************************)
Quote == "\""
Backslash == "\\"
Digits == {"1"}
type_prefixes == <<"string", "number", "boolean", "json", "array">>
ParamKeys == {"hostname", "a", "b", "c"}

\* f"<{type_prefix}_{key}>"
placeholder_of(type_prefix, key) == "<" \o type_prefix \o "_" \o key \o ">"
Placeholders ==
    {placeholder_of(type_prefixes[t], key) : t \in DOMAIN type_prefixes, key \in ParamKeys}
TypeOfPlaceholder(p) ==
    CHOOSE t \in Range(type_prefixes) : \E key \in ParamKeys : p = placeholder_of(t, key)

\* str.replace(old, new) where old is one symbol
RECURSIVE replace(_, _, _)
replace(text, old, new) ==
    IF text = <<>> THEN <<>>
    ELSE (IF Head(text) = old THEN new ELSE <<Head(text)>>) \o replace(Tail(text), old, new)

\* the escapes of json.dumps on the symbols of the model
RECURSIVE escaped(_)
escaped(text) ==
    IF text = <<>> THEN <<>>
    ELSE (IF Head(text) \in {Quote, Backslash} THEN <<Backslash, Head(text)>>
          ELSE <<Head(text)>>) \o escaped(Tail(text))

\* json.dumps of a str
json_dumps_str(text) == <<Quote>> \o escaped(text) \o <<Quote>>

(***************************************************************************)
(* json.loads, as far as the shape of the document: a string is S, a       *)
(* number N, a boolean B, an array [ shapes ], an object { key : shape }   *)
(* with the keys as written, a repeated key keeping its first place and    *)
(* its last value.  With typed = TRUE a placeholder stands for one value   *)
(* of its type: that is the shape a template promises.                     *)
(***************************************************************************)
Sym(t, i) == IF i \in DOMAIN t THEN t[i] ELSE "EOF"
ParseFail == [ok |-> FALSE, pos |-> 0, shape |-> <<>>, members |-> <<>>]
Parsed(pos, shape) == [ok |-> TRUE, pos |-> pos, shape |-> shape, members |-> <<>>]

\* from the symbol after the opening quote to the one after the closing
\* quote; 0 if the string does not end or has an escape JSON does not know
RECURSIVE scan_string(_, _)
scan_string(t, i) ==
    IF i > Len(t) THEN 0
    ELSE IF t[i] = Quote THEN i + 1
    ELSE IF t[i] = Backslash
         THEN IF Sym(t, i + 1) \in {Quote, Backslash} THEN scan_string(t, i + 2) ELSE 0
    ELSE scan_string(t, i + 1)

RECURSIVE scan_digits(_, _)
scan_digits(t, i) == IF Sym(t, i) \in Digits THEN scan_digits(t, i + 1) ELSE i

TypeShape ==
    [string |-> "S", number |-> "N", boolean |-> "B", json |-> "O", array |-> "A"]

\* a dict built pair by pair
RECURSIVE as_dict(_)
as_dict(members) ==
    IF members = <<>> THEN <<>>
    ELSE LET init == as_dict(SubSeq(members, 1, Len(members) - 1))
             last == members[Len(members)] IN
         IF \E i \in DOMAIN init : init[i].key = last.key
         THEN [i \in DOMAIN init |-> IF init[i].key = last.key THEN last ELSE init[i]]
         ELSE Append(init, last)

RECURSIVE members_shape(_)
members_shape(members) ==
    IF members = <<>> THEN <<>>
    ELSE members[1].key \o <<":">> \o members[1].shape
         \o (IF Len(members) > 1 THEN <<",">> ELSE <<>>) \o members_shape(Tail(members))

RECURSIVE parse_value(_, _, _)
RECURSIVE parse_members(_, _, _)
RECURSIVE parse_elements(_, _, _)
parse_value(t, i, typed) ==
    LET c == Sym(t, i) IN
    CASE c = Quote ->
           LET j == scan_string(t, i + 1) IN
           IF j = 0 THEN ParseFail ELSE Parsed(j, <<"S">>)
      [] c \in Digits -> Parsed(scan_digits(t, i), <<"N">>)
      [] c \in {"true", "false"} -> Parsed(i + 1, <<"B">>)
      [] c = "{" ->
           IF Sym(t, i + 1) = "}" THEN Parsed(i + 2, <<"{", "}">>)
           ELSE LET m == parse_members(t, i + 1, typed) IN
                IF m.ok
                THEN Parsed(m.pos, <<"{">> \o members_shape(as_dict(m.members)) \o <<"}">>)
                ELSE ParseFail
      [] c = "[" ->
           IF Sym(t, i + 1) = "]" THEN Parsed(i + 2, <<"[", "]">>)
           ELSE LET e == parse_elements(t, i + 1, typed) IN
                IF e.ok THEN Parsed(e.pos, <<"[">> \o e.shape \o <<"]">>) ELSE ParseFail
      [] typed /\ c \in Placeholders -> Parsed(i + 1, <<TypeShape[TypeOfPlaceholder(c)]>>)
      [] OTHER -> ParseFail

parse_members(t, i, typed) ==
    IF Sym(t, i) # Quote THEN ParseFail
    ELSE LET j == scan_string(t, i + 1) IN
         IF j = 0 \/ Sym(t, j) # ":" THEN ParseFail
         ELSE LET v == parse_value(t, j + 1, typed) IN
              IF ~v.ok THEN ParseFail
              ELSE LET member == [key |-> SubSeq(t, i, j - 1), shape |-> v.shape] IN
                   CASE Sym(t, v.pos) = "}" ->
                          [ok |-> TRUE, pos |-> v.pos + 1, shape |-> <<>>,
                           members |-> <<member>>]
                     [] Sym(t, v.pos) = "," ->
                          LET r == parse_members(t, v.pos + 1, typed) IN
                          IF r.ok THEN [r EXCEPT !.members = <<member>> \o r.members]
                          ELSE ParseFail
                     [] OTHER -> ParseFail

parse_elements(t, i, typed) ==
    LET v == parse_value(t, i, typed) IN
    IF ~v.ok THEN ParseFail
    ELSE CASE Sym(t, v.pos) = "]" -> Parsed(v.pos + 1, v.shape)
           [] Sym(t, v.pos) = "," ->
                LET r == parse_elements(t, v.pos + 1, typed) IN
                IF r.ok THEN Parsed(r.pos, v.shape \o <<",">> \o r.shape) ELSE ParseFail
           [] OTHER -> ParseFail

\* json.loads(text): the document, or JSONDecodeError
json_loads(text, typed) ==
    LET v == parse_value(text, 1, typed) IN
    IF v.ok /\ v.pos = Len(text) + 1 THEN v ELSE ParseFail

\* a parameter value: a str with its text, or the bool True
PyStr(text) == [py |-> "str", text |-> text]
PyTrue == [py |-> "bool", text |-> <<"True">>]
\* str(value).lower()
lower(text) == [i \in DOMAIN text |-> IF text[i] = "True" THEN "true" ELSE text[i]]

\* the replacement for one placeholder, or ValueError
replacement_of(type_prefix, value) ==
    CASE type_prefix = "string" ->
           [raised |-> "none", text |-> json_dumps_str(value.text)]
      [] type_prefix = "number" ->
           IF value.py # "bool" /\ value.text # <<>> /\ Range(value.text) \subseteq Digits
           THEN [raised |-> "none", text |-> value.text]
           ELSE [raised |-> "ValueError", text |-> <<>>]
      [] type_prefix = "boolean" ->
           IF value.py = "bool" \/ lower(value.text) \in {<<"true">>, <<"1">>, <<"yes">>}
           THEN [raised |-> "none", text |-> <<"true">>]
           ELSE IF lower(value.text) \in {<<"false">>, <<"0">>, <<"no">>}
           THEN [raised |-> "none", text |-> <<"false">>]
           ELSE [raised |-> "ValueError", text |-> <<>>]
      [] type_prefix = "json" ->
           IF value.py = "str" /\ json_loads(value.text, FALSE).ok
              /\ Sym(value.text, 1) = "{"
           THEN [raised |-> "none", text |-> value.text]
           ELSE [raised |-> "ValueError", text |-> <<>>]
      [] type_prefix = "array" ->
           IF value.py = "str" /\ json_loads(value.text, FALSE).ok
              /\ Sym(value.text, 1) = "["
           THEN [raised |-> "none", text |-> value.text]
           ELSE [raised |-> "ValueError", text |-> <<>>]

\* all_params = {"hostname": hostname}; all_params.update(params)
all_params_of(hostname, params) ==
    LET given == \E i \in DOMAIN params : params[i].key = "hostname"
        first == IF given
                 THEN (CHOOSE i \in DOMAIN params : params[i].key = "hostname")
                 ELSE 0 IN
    <<[key |-> "hostname", value |-> IF given THEN params[first].value ELSE PyStr(<<hostname>>)]>>
    \o SelectSeq(params, LAMBDA kv : kv.key # "hostname")

\* the two loops: step n is key (n - 1) \div 5 + 1 with type (n - 1) % 5 + 1
RECURSIVE substitute(_, _, _)
substitute(json_text, all_params, n) ==
    IF n = 0 THEN [raised |-> "none", text |-> json_text]
    ELSE LET before == substitute(json_text, all_params, n - 1)
             kv == all_params[((n - 1) \div Len(type_prefixes)) + 1]
             type_prefix == type_prefixes[((n - 1) % Len(type_prefixes)) + 1]
             placeholder == placeholder_of(type_prefix, kv.key)
             replacement == replacement_of(type_prefix, kv.value) IN
         IF before.raised # "none" THEN before
         ELSE IF placeholder \notin Range(before.text) THEN before
         ELSE IF replacement.raised # "none" THEN replacement
         ELSE [raised |-> "none", text |-> replace(before.text, placeholder, replacement.text)]

\* replace_json_placeholders: the substitutions, then json.loads(result)
replace_json_placeholders(json_text, hostname, params) ==
    LET all_params == all_params_of(hostname, params)
        result == substitute(json_text, all_params, Len(all_params) * Len(type_prefixes)) IN
    IF result.raised # "none" THEN result
    ELSE IF ~json_loads(result.text, FALSE).ok THEN [raised |-> "ValueError", text |-> <<>>]
    ELSE result

(***************************************************************************)
(* SpecSubst: replace_json_placeholders on a payload template and any      *)
(* parameters a request can carry, in any order.                           *)
(***************************************************************************)
MaxParams == 3
Templates ==
    {<<"{", Quote, "k", Quote, ":", "<string_a>", "}">>,
     <<"{", Quote, "k", Quote, ":", "<string_a>", ",",
            Quote, "m", Quote, ":", "<number_b>", "}">>,
     <<"{", Quote, "k", Quote, ":", "<boolean_a>", ",",
            Quote, "h", Quote, ":", "<string_hostname>", "}">>}
ParamValues ==
    {PyStr(<<"x">>),
     PyStr(<<"1">>),
     PyStr(<<Backslash>>),
     PyStr(<<Quote, ",", Quote, "x", Quote, ":", Quote, "y">>),
     PyStr(<<"{", Quote, "x", Quote, ":", "1", "}">>),
     PyStr(<<"<string_b>">>),
     PyStr(<<"<number_b>">>),
     PyStr(<<",", "<string_c>", ":">>),
     PyTrue}
RequestKeys == {"a", "b", "c"}
KeyOrders ==
    {ks \in UNION {[1..n -> RequestKeys] : n \in 1..MaxParams} :
        \A i, j \in DOMAIN ks : i # j => ks[i] # ks[j]}
ParamDicts ==
    UNION {{[i \in DOMAIN ks |-> [key |-> ks[i], value |-> vs[i]]] :
               vs \in [DOMAIN ks -> ParamValues]} : ks \in KeyOrders}

InitSubst ==
    /\ IdleButFn
    /\ \E json_text \in Templates, params \in ParamDicts :
          fn = [op |-> "replace_json_placeholders",
                args |-> <<json_text, "h1", params>>,
                result |-> <<>>, done |-> FALSE]

substitution ==
    /\ ~fn.done
    /\ fn' = [fn EXCEPT
                !.result = replace_json_placeholders(fn.args[1], fn.args[2], fn.args[3]),
                !.done = TRUE]
    /\ UNCHANGED notFn

NextSubst == substitution

SpecSubst == InitSubst /\ [][NextSubst]_vars

\* C24: for a payload template, whatever the parameter values, the call
\* fails or its result parses as JSON with the keys and the structure of
\* the template, each typed placeholder having become one value of its
\* type.
C24_NoInjection ==
    fn.done /\ fn.op = "replace_json_placeholders" /\ fn.result.raised = "none" =>
        /\ json_loads(fn.result.text, FALSE).ok
        /\ json_loads(fn.result.text, FALSE).shape = json_loads(fn.args[1], TRUE).shape

\* the values a: <string_b>, b: ,<string_c>: and c: x give the document a
\* second key
C24_Injected ==
    /\ fn.done
    /\ fn.op = "replace_json_placeholders"
    /\ fn.result.raised = "none"
    /\ json_loads(fn.result.text, FALSE).shape
         = <<"{", Quote, "k", Quote, ":", "S", ",", Quote, "x", Quote, ":", "S", "}">>


(***************************************************************************)
(* Config validation of one command (config_validation.py).  A field of    *)
(* the command is absent, an int, or a value of another type.              *)
(***************************************************************************)
Absent == [present |-> FALSE, isint |-> FALSE, n |-> 0]
NotInt == [present |-> TRUE, isint |-> FALSE, n |-> 0]
IntField(n) == [present |-> TRUE, isint |-> TRUE, n |-> n]
TimeoutFields == {Absent, NotInt} \cup {IntField(n) : n \in {-5, -2, -1, 0, 5}}
ConfigCommands ==
    [type : {"shell", "http", "other"}, has_body : BOOLEAN,
     timeout : TimeoutFields, async_timeout : TimeoutFields]

\* _validate_shell_command; has_body: 'command' is there, a string
validate_shell_command(cmd) ==
    LET has_timeout == cmd.timeout.present
        has_async == cmd.async_timeout.present IN
    IF ~cmd.has_body THEN "ValueError"
    ELSE IF ~has_timeout /\ ~has_async THEN "ValueError"
    ELSE IF has_timeout /\ ~cmd.timeout.isint THEN "ValueError"
    ELSE IF has_async /\ ~cmd.async_timeout.isint THEN "ValueError"
    ELSE "None"

\* _validate_http_command; has_body: 'url' is there, a string, and no other
\* field is in the way
validate_http_command(cmd) ==
    LET has_timeout == cmd.timeout.present
        has_async == cmd.async_timeout.present IN
    IF ~cmd.has_body THEN "ValueError"
    ELSE IF ~has_timeout /\ ~has_async THEN "ValueError"
    ELSE "None"

\* _validate_commands, for one command with a name
validate_command(cmd) ==
    IF cmd.type \notin {"shell", "http"} THEN "ValueError"
    ELSE IF cmd.type = "shell" THEN validate_shell_command(cmd)
    ELSE validate_http_command(cmd)

(***************************************************************************)
(* SpecConfig: validate_config_schema on a config of one host with one     *)
(* command.                                                                *)
(***************************************************************************)
InitConfig ==
    /\ IdleButFn
    /\ \E cmd \in ConfigCommands :
          fn = [op |-> "validate_config_schema", args |-> <<cmd>>,
                result |-> <<>>, done |-> FALSE]

validate_config_schema ==
    /\ ~fn.done
    /\ fn' = [fn EXCEPT !.result = validate_command(fn.args[1]), !.done = TRUE]
    /\ UNCHANGED notFn

NextConfig == validate_config_schema

SpecConfig == InitConfig /\ [][NextConfig]_vars

\* C25: a command the validation accepts has exactly one of timeout and
\* async_timeout, a timeout that is an integer >= 0 or an async_timeout
\* that is an integer >= -1.
C25_TimeoutVariant ==
    fn.done /\ fn.op = "validate_config_schema" /\ fn.result = "None" =>
        LET cmd == fn.args[1] IN
        /\ cmd.timeout.present # cmd.async_timeout.present
        /\ cmd.timeout.present => cmd.timeout.isint /\ cmd.timeout.n >= 0
        /\ cmd.async_timeout.present => cmd.async_timeout.isint /\ cmd.async_timeout.n >= -1

\* a shell command with timeout -5 and async_timeout -2 is accepted
C25_Accepted ==
    /\ fn.done
    /\ fn.op = "validate_config_schema"
    /\ fn.args[1].type = "shell"
    /\ fn.args[1].timeout = IntField(-5)
    /\ fn.args[1].async_timeout = IntField(-2)
    /\ fn.result = "None"


(***************************************************************************)
(* SpecAdmin: the config file and the configs in memory.  A document is    *)
(* what the file or a PUT body holds: per host the names of its commands,  *)
(* and the names of the execution plans.  ConciergeConfig holds what       *)
(* _process_config_file made of the file when it last ran; TaskScheduler   *)
(* holds the two dicts it was constructed with (main.py 50, 67, 73).       *)
(***************************************************************************)
MaxAdminRequests == 2
StartupDocument ==
    [valid |-> TRUE, hosts |-> [h1 |-> {"sync_sh"}], execution_plans |-> {"s4"}]
Documents ==
    {StartupDocument,
     [valid |-> TRUE, hosts |-> [h2 |-> {"sync_sh"}], execution_plans |-> {}],
     [valid |-> TRUE, hosts |-> [h1 |-> {"sync_sh", "async_sh"}],
      execution_plans |-> {"s4", "retry"}],
     [valid |-> FALSE, hosts |-> [h1 |-> {"sync_sh"}], execution_plans |-> {}]}
AdminCommands == {"sync_sh", "async_sh", "s4", "retry"}
AdminHosts == {"h1", "h2"}

\* _process_config_file: hosts, commands and execution_plans are new dicts
process_config_file(document) ==
    [hosts |-> document.hosts,
     commands |-> UNION {document.hosts[h] : h \in DOMAIN document.hosts}
                    \cup document.execution_plans,
     execution_plans |-> document.execution_plans]

\* main: ConciergeConfig(config_path, ...), TaskScheduler(..., config.execution_plans,
\* config.hosts), Handler.config = config
InitAdmin ==
    /\ IdleStore
    /\ IdleCore
    /\ IdleFiles
    /\ IdleWS
    /\ fn = NoFn
    /\ sent = <<>>
    /\ child = "None"
    /\ LET loaded == process_config_file(StartupDocument) IN
       config = [file |-> StartupDocument,
                 handler |-> loaded,
                 scheduler |-> [execution_plans |-> loaded.execution_plans,
                                hosts_config |-> loaded.hosts]]

notAdmin == <<db, store_call, processes, procs, requests, plans, threads, files, fn,
              sent, child, now, issued, used_nonces, clients, conns>>

\* PUT /admin/config with the admin key: _serve_admin_config
serve_admin_config(body_data) ==
    /\ Len(responses) < MaxAdminRequests
    /\ IF body_data.valid
       THEN /\ config' = [config EXCEPT !.file = body_data]
            /\ responses' = Append(responses, [request |-> "PUT /admin/config", code |-> "200",
                                               command |-> "None", hostname |-> "None",
                                               outcome |-> "Config updated successfully"])
       ELSE /\ config' = config
            /\ responses' = Append(responses, [request |-> "PUT /admin/config", code |-> "400",
                                               command |-> "None", hostname |-> "None",
                                               outcome |-> "Config update failed"])
    /\ UNCHANGED notAdmin

\* GET /concierge: process_template_file(), refresh_config = True
serve_concierge ==
    /\ Len(responses) < MaxAdminRequests
    /\ config' = [config EXCEPT !.handler = process_config_file(config.file)]
    /\ responses' = Append(responses, [request |-> "GET /concierge", code |-> "200",
                                       command |-> "None", hostname |-> "None",
                                       outcome |-> "html"])
    /\ UNCHANGED notAdmin

\* what do_POST and the scheduler make of a command for one host, given
\* the config of the handler and the dicts of the scheduler
post_outcome(command_name, hostname, handler, scheduler) ==
    IF command_name \in handler.execution_plans
    THEN IF command_name \in scheduler.execution_plans
         THEN "plan started"
         ELSE "Execution plan error: not found"
    ELSE IF hostname \notin DOMAIN handler.hosts THEN "Host not allowed"
    ELSE IF command_name \notin handler.hosts[hostname] THEN "Command not allowed"
    ELSE "dispatched"

\* POST /concierge/api/v1/commands/<command_name>/<hostname>
admin_post(command_name, hostname) ==
    /\ Len(responses) < MaxAdminRequests + 1
    /\ responses' = Append(responses,
          [request |-> "POST", code |-> "None",
           command |-> command_name, hostname |-> hostname,
           outcome |-> post_outcome(command_name, hostname, config.handler, config.scheduler)])
    /\ UNCHANGED <<config, notAdmin>>

NextAdmin ==
    \/ \E body_data \in Documents : serve_admin_config(body_data)
    \/ serve_concierge
    \/ \E command_name \in AdminCommands, hostname \in AdminHosts :
          admin_post(command_name, hostname)

SpecAdmin == InitAdmin /\ [][NextAdmin]_vars

\* C26: whatever was PUT and whatever requests followed, the handler and
\* the scheduler hold the hosts, commands and execution plans loaded at
\* startup, the same ones, and every POST is answered as the startup
\* config answers it.
C26_RestartOnly ==
    LET startup == process_config_file(StartupDocument) IN
    /\ config.handler = startup
    /\ config.scheduler.execution_plans = config.handler.execution_plans
    /\ config.scheduler.hosts_config = config.handler.hosts
    /\ \A i \in DOMAIN responses :
          responses[i].request = "POST" =>
              responses[i].outcome =
                  post_outcome(responses[i].command, responses[i].hostname, startup,
                               [execution_plans |-> startup.execution_plans,
                                hosts_config |-> startup.hosts])

\* after a PUT and GET /concierge a plan of the new file is accepted by the
\* handler and unknown to the scheduler
C26_Diverged ==
    /\ Len(responses) = 3
    /\ responses[1].request = "PUT /admin/config"
    /\ responses[2].request = "GET /concierge"
    /\ responses[3].command = "retry"
    /\ responses[3].outcome = "Execution plan error: not found"


(***************************************************************************)
(* SpecStream: the frames the server writes to its WebSocket clients.      *)
(* Sockets are numbered as they connect; self.clients is a dict, so its    *)
(* items come in that order.  conns[c].broken: the peer is gone and a      *)
(* write to the socket fails.  sent[c] is what was written to socket c.    *)
(* fn is the last call of send_to_client and how it ended; fn.n counts     *)
(* the calls.                                                              *)
(***************************************************************************)
MaxClients == 3
MaxFrames == 2
opcode_text == 1
opcode_binary == 2
StreamKeys == {<<"t1", "h1">>, <<"t1", "h2">>, <<"t2", "h1">>}
\* json.dumps({"type": ...}) and the framed JPEG data
JsonMessages == {"connected", "stdout", "status"}
FramedData == {"image/jpeg"}

InitStream ==
    /\ IdleStore
    /\ IdleCore
    /\ IdleFiles
    /\ config = "None"
    /\ child = "None"
    /\ now = 0
    /\ issued = {}
    /\ used_nonces = EmptyMap
    /\ clients = EmptyMap
    /\ conns = <<>>
    /\ sent = <<>>
    /\ fn = [op |-> "None", args |-> <<>>, result |-> "None", done |-> FALSE, n |-> 0]

notStream == <<db, store_call, processes, procs, requests, plans, responses, threads,
               files, config, child, now, issued, used_nonces>>

\* _handle_client after the handshake: the socket enters self.clients and
\* gets the greeting
handle_client(task_id, hostname) ==
    /\ Len(conns) < MaxClients
    /\ LET sock == Len(conns) + 1 IN
       /\ clients' = Put(clients, sock, <<"user", task_id, hostname>>)
       /\ conns' = Append(conns, [state |-> "registered", broken |-> FALSE])
       /\ sent' = Append(sent, <<[opcode |-> opcode_text, data |-> "connected"]>>)
    /\ UNCHANGED <<fn, notStream>>

\* the peer of a socket goes away without a close frame
peer_gone(sock) ==
    /\ sock \in DOMAIN conns
    /\ conns[sock].state = "registered"
    /\ ~conns[sock].broken
    /\ conns' = [conns EXCEPT ![sock].broken = TRUE]
    /\ UNCHANGED <<clients, sent, fn, notStream>>

\* _handle_client: the read loop ends on a close frame, finally unregisters
client_closes(sock) ==
    /\ sock \in DOMAIN clients
    /\ ~conns[sock].broken
    /\ clients' = Drop(clients, sock)
    /\ conns' = [conns EXCEPT ![sock].state = "closed"]
    /\ UNCHANGED <<sent, fn, notStream>>

\* the keys of self.clients in the order of the dict
RECURSIVE items_upto(_, _)
items_upto(cl, n) ==
    IF n = 0 THEN <<>>
    ELSE items_upto(cl, n - 1) \o (IF n \in DOMAIN cl THEN <<n>> ELSE <<>>)
items(cl) == items_upto(cl, MaxClients)

\* the for loop of send_to_client from its i-th next(): the dict iterator
\* raises RuntimeError once the dict has changed size; _send_frame returns
\* False when sendall raises
RECURSIVE send_loop(_, _, _)
send_loop(i, s, call) ==
    IF DOMAIN s.clients # DOMAIN call.clients THEN [s EXCEPT !.raised = "RuntimeError"]
    ELSE IF i > Len(call.order) THEN s
    ELSE LET sock == call.order[i]
             who == call.clients[sock] IN
         IF who[2] = call.task_id /\ who[3] = call.hostname
         THEN IF ~conns[sock].broken
              THEN send_loop(i + 1, [s EXCEPT !.sent[sock] = Append(@, call.frame)], call)
              ELSE send_loop(i + 1, [s EXCEPT !.clients = Drop(@, sock),
                                              !.closed = @ \cup {sock}], call)
         ELSE send_loop(i + 1, s, call)

\* send_to_client(task_id, hostname, data): every frame goes out with 0x02
send_to_client(task_id, hostname, data) ==
    /\ fn.n < MaxFrames
    /\ LET frame == [opcode |-> opcode_binary, data |-> data]
           s == send_loop(1, [clients |-> clients, sent |-> sent, closed |-> {},
                              raised |-> "None"],
                          [task_id |-> task_id, hostname |-> hostname, frame |-> frame,
                           clients |-> clients, order |-> items(clients)]) IN
       /\ clients' = s.clients
       /\ sent' = s.sent
       /\ conns' = [c \in DOMAIN conns |->
                       IF c \in s.closed THEN [conns[c] EXCEPT !.state = "closed"]
                       ELSE conns[c]]
       /\ fn' = [op |-> "send_to_client", args |-> <<task_id, hostname, frame>>,
                 result |-> s.raised, done |-> TRUE, n |-> fn.n + 1]
    /\ UNCHANGED notStream

\* _stream_text_output: a chunk of stdout as a JSON message
stream_text_output(task_id, hostname) == send_to_client(task_id, hostname, "stdout")

\* broadcast_status: the status as a JSON message
broadcast_status(task_id, hostname) == send_to_client(task_id, hostname, "status")

\* _send_framed_data(frame_data, 'image/jpeg')
send_framed_data(task_id, hostname) == send_to_client(task_id, hostname, "image/jpeg")

NextStream ==
    \/ \E key \in StreamKeys : handle_client(key[1], key[2])
    \/ \E sock \in 1..MaxClients : peer_gone(sock)
    \/ \E sock \in 1..MaxClients : client_closes(sock)
    \/ \E key \in StreamKeys : stream_text_output(key[1], key[2])
    \/ \E key \in StreamKeys : broadcast_status(key[1], key[2])
    \/ \E key \in StreamKeys : send_framed_data(key[1], key[2])

SpecStream == InitStream /\ [][NextStream]_vars

\* the registered clients of a task and host
Matching(cl, task_id, hostname) ==
    {sock \in DOMAIN cl : cl[sock][2] = task_id /\ cl[sock][3] = hostname}

\* C28: a call of send_to_client(task, host, data) writes the frame once to
\* every registered client of (task, host) whose socket takes it and to no
\* other socket, removes from the client map the clients whose write
\* failed and no other, and returns normally.
C28_SendToClient ==
    [][fn'.n = fn.n + 1 =>
          LET task_id == fn'.args[1]
              hostname == fn'.args[2]
              frame == fn'.args[3]
              matching == Matching(clients, task_id, hostname) IN
          /\ fn'.result = "None"
          /\ \A sock \in DOMAIN sent :
                sent'[sock] = IF sock \in matching /\ ~conns[sock].broken
                              THEN Append(sent[sock], frame)
                              ELSE sent[sock]
          /\ DOMAIN clients' = DOMAIN clients \ {sock \in matching : conns[sock].broken}
      ]_vars

\* two clients of (t1, h1), the first one gone: the call raised and the
\* second client got nothing
C28_Raised ==
    /\ fn.op = "send_to_client"
    /\ fn.result = "RuntimeError"
    /\ fn.args[1] = "t1" /\ fn.args[2] = "h1"
    /\ DOMAIN clients = {2}
    /\ clients[2] = <<"user", "t1", "h1">>
    /\ Len(sent[2]) = 1

\* C29: every JSON message written to a client (a stdout chunk, a status,
\* the greeting) is in a text frame, and only framed JPEG data is in a
\* binary frame.
C29_TextFrames ==
    \A sock \in DOMAIN sent :
        \A i \in DOMAIN sent[sock] :
            /\ sent[sock][i].data \in JsonMessages => sent[sock][i].opcode = opcode_text
            /\ sent[sock][i].opcode = opcode_binary => sent[sock][i].data \in FramedData

\* a client has its greeting in a text frame and a stdout chunk in a binary
\* frame
C29_BinaryStdout ==
    \E sock \in DOMAIN sent :
        /\ Len(sent[sock]) = 2
        /\ sent[sock][1] = [opcode |-> opcode_text, data |-> "connected"]
        /\ sent[sock][2] = [opcode |-> opcode_binary, data |-> "stdout"]


(***************************************************************************)
(* SpecStdin: the read loop of _handle_client for one client of a process  *)
(* in process_streams.  child is the Popen object: whether it has a stdin  *)
(* pipe (socket_raw_stdin), whether the pipe is closed, what was written   *)
(* to it, the signals sent to the pid, and the frames read so far.         *)
(***************************************************************************)
MaxInbound == 3
\* payloads by what json.loads(payload.decode('utf-8')) makes of them
ControlPayload(char) == [text |-> "control", json |-> "control", char |-> char]
Payloads ==
    {ControlPayload(char) : char \in {"C", "D", "Z", "X"}}
    \cup {[text |-> "ls", json |-> "JSONDecodeError", char |-> "None"],
          [text |-> "42", json |-> "int", char |-> "None"],
          [text |-> "data", json |-> "dict", char |-> "None"]}
InboundFrames == [opcode : {opcode_text, opcode_binary}, payload : Payloads]

InitStdin ==
    /\ IdleStore
    /\ IdleCore
    /\ IdleFiles
    /\ IdleWS
    /\ fn = NoFn
    /\ config = "None"
    /\ sent = <<>>
    /\ \E socket_raw_stdin \in BOOLEAN :
          child = [stdin |-> socket_raw_stdin, closed |-> FALSE, written |-> <<>>,
                   signals |-> <<>>, frames |-> <<>>]

notChild == <<db, store_call, processes, procs, requests, plans, responses, threads,
              files, fn, config, sent, now, issued, used_nonces, clients, conns>>

\* the branch for opcode 0x01 or 0x02 with a payload
on_data_frame(proc, frame) ==
    LET payload == frame.payload IN
    IF proc.stdin /\ ~proc.closed
    THEN IF frame.opcode = opcode_text /\ payload.json = "control"
         THEN CASE payload.char = "C" -> [proc EXCEPT !.signals = Append(@, "SIGINT")]
                [] payload.char = "D" -> [proc EXCEPT !.closed = TRUE]
                [] payload.char = "Z" -> [proc EXCEPT !.signals = Append(@, "SIGTSTP")]
                [] OTHER -> proc
         ELSE [proc EXCEPT !.written = Append(@, payload)]
    ELSE proc

\* one round of the loop: _recv_frame, then the branch
recv_frame(frame) ==
    /\ Len(child.frames) < MaxInbound
    /\ child' = [on_data_frame(child, frame) EXCEPT !.frames = Append(@, frame)]
    /\ UNCHANGED notChild

NextStdin == \E frame \in InboundFrames : recv_frame(frame)

SpecStdin == InitStdin /\ [][NextStdin]_vars

\* C30: for a process with a stdin pipe, a control text frame with char C,
\* D or Z has its effect (SIGINT, stdin closed, SIGTSTP) whatever frames
\* came before, and writes nothing to stdin; any other data frame is
\* written to stdin as it is while stdin is open, and signals nothing.
C30_ControlFrames ==
    [][Len(child'.frames) = Len(child.frames) + 1 /\ child.stdin =>
          LET frame == child'.frames[Len(child'.frames)]
              payload == frame.payload
              control == /\ frame.opcode = opcode_text
                         /\ payload.json = "control"
                         /\ payload.char \in {"C", "D", "Z"} IN
          /\ control =>
                /\ child'.written = child.written
                /\ payload.char = "C" => child'.signals = Append(child.signals, "SIGINT")
                /\ payload.char = "Z" => child'.signals = Append(child.signals, "SIGTSTP")
                /\ payload.char = "D" => child'.closed /\ child'.signals = child.signals
          /\ ~control =>
                /\ child'.signals = child.signals
                /\ child'.closed = child.closed
                /\ ~child.closed => child'.written = Append(child.written, payload)
      ]_vars

\* a D frame, then a C frame: stdin is closed and no signal was sent
C30_Unsignalled ==
    /\ child.stdin
    /\ Len(child.frames) = 2
    /\ child.frames[1] = [opcode |-> opcode_text, payload |-> ControlPayload("D")]
    /\ child.frames[2] = [opcode |-> opcode_text, payload |-> ControlPayload("C")]
    /\ child.closed
    /\ child.signals = <<>>

(***************************************************************************)
(* SpecProc: the threads of the async processes of one task over a clock:  *)
(* StreamableProcess.run_async (Popen, the wait with its timeout, the      *)
(* closing _update_task and its status broadcast), HTTPProcess.run_async   *)
(* and the abort of the task.  sent is the list of the status broadcasts.  *)
(***************************************************************************)
MaxClock == 2
ProcTask == <<"t1">>
ProcHostLists == {<<"h1">>, <<"h1", "h2">>}

\* the async commands: a shell command of each async_timeout and an HTTP one
AsyncCommands ==
    [type : {"shell"}, async_timeout : {-1, 0, 1}]
        \cup {[type |-> "http", async_timeout |-> 1]}

\* execute_shell_async: p.run_async(timeout if timeout >= 0 else None); the
\* argument is <<n>>, or <<>> for None
run_async_timeout(async_timeout) ==
    IF async_timeout >= 0 THEN <<async_timeout>> ELSE <<>>

\* run_async.target: "if timeout and timeout > 0" waits with the timeout,
\* the other branch waits without one (<<>>)
wait_timeout(timeout) ==
    IF timeout # <<>> /\ timeout[1] # 0 /\ timeout[1] > 0 THEN timeout ELSE <<>>

\* execute_shell_async and execute_http_async for one host: the process
\* object, its thread started
new_process(cmd, hostname) ==
    [task_id |-> ProcTask, hostname |-> hostname, type |-> cmd.type,
     async_timeout |-> cmd.async_timeout,
     timeout |-> run_async_timeout(cmd.async_timeout),
     state |-> "pending", started |-> 0, rc |-> None, aborted |-> FALSE,
     timed_out |-> FALSE]

\* the task is stored and a process is started for each of its hosts
InitProc ==
    /\ \E cmd \in AsyncCommands, hosts \in ProcHostLists :
          /\ db = set_item(NewDict(0), ProcTask, task_data("async", hosts, None)).d
          /\ procs = [i \in DOMAIN hosts |-> new_process(cmd, hosts[i])]
          /\ processes = set_item(NewDict(0), ProcTask,
                             [i \in DOMAIN hosts |-> i]).d
    /\ store_call = NoCall
    /\ requests = EmptyMap
    /\ plans = EmptyMap
    /\ responses = <<>>
    /\ threads = EmptyMap
    /\ IdleAux
    /\ IdleWS

notProc == <<store_call, processes, requests, plans, responses, threads,
             files, fn, config, child, issued, used_nonces, clients, conns>>

\* _update_task: success is broadcast when the process exists and returned 0,
\* error otherwise
broadcast_of(proc) ==
    [type |-> "status", task_id |-> proc.task_id, hostname |-> proc.hostname,
     status |-> IF proc.rc = "0" THEN "success" ELSE "error"]

\* the broadcast is made under "if task:", when the store holds the task
broadcast(s, proc) ==
    IF proc.task_id \in DOMAIN db.vals THEN Append(s, broadcast_of(proc)) ELSE s

\* run_async.target: Popen starts the process and the thread enters
\* proc.wait, or Popen raises and _update_task(error) ends the thread
popen(i, ok) ==
    /\ i \in DOMAIN procs
    /\ procs[i].type = "shell"
    /\ procs[i].state = "pending"
    /\ IF ok
       THEN /\ procs' = [procs EXCEPT ![i].state = "waiting", ![i].started = now]
            /\ UNCHANGED <<db, sent>>
       ELSE /\ procs' = [procs EXCEPT ![i].state = "done", ![i].rc = "nostart"]
            /\ db' = update_task(db, procs[i].task_id, procs[i].hostname, "Popen failed")
            /\ sent' = broadcast(sent, [procs[i] EXCEPT !.rc = "nostart"])
    /\ UNCHANGED <<now, notProc>>

\* time passes
clock ==
    /\ now < MaxClock
    /\ now' = now + 1
    /\ UNCHANGED <<db, procs, sent, notProc>>

\* the process ends by itself and proc.wait returns
exits(i, rc) ==
    /\ i \in DOMAIN procs
    /\ procs[i].type = "shell"
    /\ procs[i].state = "waiting"
    /\ procs' = [procs EXCEPT ![i].state = "ended", ![i].rc = rc]
    /\ UNCHANGED <<db, sent, now, notProc>>

\* proc.wait(timeout=timeout) raises TimeoutExpired once the timeout has
\* passed with the process still running: except TimeoutExpired: _terminate()
timeout_expired(i) ==
    /\ i \in DOMAIN procs
    /\ procs[i].type = "shell"
    /\ procs[i].state = "waiting"
    /\ wait_timeout(procs[i].timeout) # <<>>
    /\ now >= procs[i].started + wait_timeout(procs[i].timeout)[1]
    /\ procs' = [procs EXCEPT ![i].state = "ended", ![i].rc = "terminated",
                              ![i].timed_out = TRUE]
    /\ UNCHANGED <<db, sent, now, notProc>>

\* run_async.target: the closing _update_task() and its broadcast
update(i) ==
    /\ i \in DOMAIN procs
    /\ procs[i].type = "shell"
    /\ procs[i].state = "ended"
    /\ procs' = [procs EXCEPT ![i].state = "done"]
    /\ db' = update_task(db, procs[i].task_id, procs[i].hostname, shell_error(procs[i]))
    /\ sent' = broadcast(sent, procs[i])
    /\ UNCHANGED <<now, notProc>>

\* HTTPProcess.run_async.target: if not self.aborted: self._execute_http(),
\* up to the request
request_start(i) ==
    /\ i \in DOMAIN procs
    /\ procs[i].type = "http"
    /\ procs[i].state = "pending"
    /\ procs' = [procs EXCEPT ![i].state =
                    IF procs[i].aborted THEN "done" ELSE "inflight"]
    /\ UNCHANGED <<db, sent, now, notProc>>

\* HTTPProcess._execute_http: the answer or the exception, then _update_tasks
request_finish(i, ok) ==
    /\ i \in DOMAIN procs
    /\ procs[i].type = "http"
    /\ procs[i].state = "inflight"
    /\ procs' = [procs EXCEPT ![i].state = "done"]
    /\ db' = update_tasks(db, procs[i].task_id, procs[i].hostname,
                 IF procs[i].aborted THEN "Task aborted"
                 ELSE IF ok THEN "" ELSE "HTTP error", <<>>)
    /\ UNCHANGED <<sent, now, notProc>>

\* _serve_abort: abort() on every process object of the task: the flag is
\* set and _terminate ends a process that was started and has not ended
serve_abort ==
    /\ contains(db, ProcTask)
    /\ procs' = [i \in DOMAIN procs |->
                   IF procs[i].type = "shell" /\ procs[i].state = "waiting"
                   THEN [procs[i] EXCEPT !.aborted = TRUE,
                                         !.state = "ended", !.rc = "terminated"]
                   ELSE [procs[i] EXCEPT !.aborted = TRUE]]
    /\ procs' # procs
    /\ UNCHANGED <<db, sent, now, notProc>>

NextProc ==
    \/ \E i \in DOMAIN procs, ok \in BOOLEAN : popen(i, ok)
    \/ clock
    \/ \E i \in DOMAIN procs, rc \in {"0", "1"} : exits(i, rc)
    \/ \E i \in DOMAIN procs : timeout_expired(i)
    \/ \E i \in DOMAIN procs : update(i)
    \/ \E i \in DOMAIN procs : request_start(i)
    \/ \E i \in DOMAIN procs, ok \in BOOLEAN : request_finish(i, ok)
    \/ serve_abort

SpecProc == InitProc /\ [][NextProc]_vars

\* the threads keep running and time keeps passing; a process need not end
\* by itself and nobody has to abort
SpecProcFair ==
    /\ SpecProc
    /\ \A i \in 1..2 :
          /\ WF_vars(\E ok \in BOOLEAN : popen(i, ok))
          /\ WF_vars(timeout_expired(i))
          /\ WF_vars(update(i))
          /\ WF_vars(request_start(i))
          /\ WF_vars(\E ok \in BOOLEAN : request_finish(i, ok))
    /\ WF_vars(clock)

in_errors(task_id, hostname) ==
    /\ task_id \in DOMAIN db.vals
    /\ \E k \in DOMAIN db.vals[task_id].errors :
          db.vals[task_id].errors[k].hostname = hostname

\* C31: for an async shell command, async_timeout = -1 is unbounded (no
\* process is terminated for timeout) and async_timeout = 0 is a zero-second
\* wait: the supervisor does not wait indefinitely for a process that is
\* still running, it leaves the wait even if the process never ends by
\* itself, and the host of a process terminated for timeout is recorded in
\* errors.
C31_AsyncTimeout ==
    /\ [](\A i \in DOMAIN procs :
            /\ procs[i].type = "shell" /\ procs[i].async_timeout = -1
                  => ~procs[i].timed_out
            /\ procs[i].timed_out /\ procs[i].state = "done"
                  => in_errors(ProcTask, procs[i].hostname))
    /\ \A i \in 1..2 :
          (i \in DOMAIN procs /\ procs[i].type = "shell"
              /\ procs[i].async_timeout = 0 /\ procs[i].state = "waiting")
          ~> (i \in DOMAIN procs /\ procs[i].state # "waiting")

\* a process of async_timeout 0 is still waited for after the clock has
\* moved on
C31_StillWaiting ==
    \E i \in DOMAIN procs :
        /\ procs[i].type = "shell"
        /\ procs[i].async_timeout = 0
        /\ procs[i].state = "waiting"
        /\ now > procs[i].started

in_running(task_id, hostname) ==
    /\ task_id \in DOMAIN db.vals
    /\ hostname \in Range(db.vals[task_id].running)

\* the process i was aborted with its host in running
aborted_running(i) ==
    IF i \in DOMAIN procs
    THEN procs[i].aborted /\ in_running(ProcTask, procs[i].hostname)
    ELSE FALSE

\* the host of the process i has left running and is in errors
recorded_aborted(i) ==
    IF i \in DOMAIN procs
    THEN /\ ~in_running(ProcTask, procs[i].hostname)
         /\ in_errors(ProcTask, procs[i].hostname)
    ELSE FALSE

\* C38: after an abort of a task, every host of the task that is still in
\* running leaves running and is recorded in errors, and the task gets
\* end_timestamp, an HTTP process aborted before its request is made
\* included.
C38_AbortEnds ==
    \A i \in 1..2 :
        /\ aborted_running(i) ~> recorded_aborted(i)
        /\ aborted_running(i) ~> db.vals[ProcTask].end_timestamp

\* the thread of an HTTP process aborted before its request has ended and
\* the host is still in running
C38_LeftRunning ==
    \E i \in DOMAIN procs :
        /\ procs[i].type = "http"
        /\ procs[i].aborted
        /\ procs[i].state = "done"
        /\ in_running(ProcTask, procs[i].hostname)
        /\ ~db.vals[ProcTask].end_timestamp

\* C39: the status broadcast of a shell process agrees with the task
\* record: "success" has been broadcast for (task, host) if and only if the
\* host is recorded in the success list of the task, whatever the order of
\* the end of the process and the abort.
C39_BroadcastAgrees ==
    \A i \in DOMAIN procs :
        procs[i].type = "shell" =>
            ((\E k \in DOMAIN sent :
                  sent[k] = [type |-> "status", task_id |-> procs[i].task_id,
                             hostname |-> procs[i].hostname, status |-> "success"])
             <=> (/\ procs[i].task_id \in DOMAIN db.vals
                  /\ procs[i].hostname
                         \in hosts_of(db.vals[procs[i].task_id].success)))

\* a process aborted before it was started ended with return code 0: the
\* host is recorded in errors and "success" was broadcast
C39_Disagree ==
    \E i \in DOMAIN procs :
        /\ procs[i].type = "shell"
        /\ procs[i].state = "done"
        /\ procs[i].aborted
        /\ procs[i].rc = "0"
        /\ in_errors(ProcTask, procs[i].hostname)
        /\ broadcast_of(procs[i]) \in Range(sent)

====
